---------------------------- MODULE Spec2Model ----------------------------
(***************************************************************************)
(* The per-match session coordinator of apps/worker/src/game.ts (class     *)
(* Game, a Durable Object): the turn/phase state machine, the watchdog     *)
(* alarm, the connection registry, the log merges and the bot chain.       *)
(*                                                                         *)
(* Time.  Every timestamp the code stores (turnEndTime, phaseStartTime,    *)
(* the armed alarm, the due time of a setTimeout callback) is kept         *)
(* RELATIVE to the current instant: the value held is (timestamp -         *)
(* Date.now()), in milliseconds.  Date.now() is therefore the origin, now  *)
(* == 0, in every handler, and the passage of d milliseconds (action Tick) *)
(* lowers every stored timestamp by d.  A timestamp further in the past    *)
(* than Horizon is stored as -Horizon: the code only ever compares a       *)
(* timestamp with now minus one of its timeouts, all shorter than Horizon. *)
(*                                                                         *)
(* Indices.  currentTurnIndex, seat indices and unit indices are 0-based   *)
(* as in the code; TLA+ sequences are 1-based, so playerOrder[i + 1] is    *)
(* the code's playerOrder[i].                                              *)
(***************************************************************************)
EXTENDS Integers, Sequences, FiniteSets, TLC

\* ------------------------------------------------------------ constants
TURN_TIME_MS == 45000
RETREAT_TIME_MS == 8000
WATCHDOG_GRACE_MS == 5000
PROJECTILE_TIMEOUT_MS == 20000
DISCONNECT_ADVANCE_MS == 12000
ballsPerTeam == 3
BOT_KICKOFF_MS == 500
BOT_THINK_MS == 600
BOT_STEP_MS == 180
BOT_POSTFIRE_MS == 1500

\* ---------------------------------------------------------------- bounds
\* Time passes in steps of TickStep, or up to the next pending deadline; a
\* due alarm or timer callback is run at most MaxLate ms after its deadline.
TickStep == 15000
\* Timestamps older than this are indistinguishable to the code.
Horizon == 60000
\* Number of websocket objects that can be open at once.
MaxSockets == 2
\* inputLog is represented up to MaxLog entries (see PushLog); at most
\* MaxTimers callbacks are pending at once.
MaxLog == 2
MaxTimers == 2
\* Number of /init requests that can be in flight at once.
MaxInitCalls == 2

MaxLate == TickStep

\* Date.now(): the origin of the relative time axis.
now == 0
\* The relative image of an absolute timestamp 0 (field initialisers).
Epoch == 0 - Horizon

Max(a, b) == IF a >= b THEN a ELSE b
Abs(x) == IF x >= 0 THEN x ELSE 0 - x
Range(f) == {f[x] : x \in DOMAIN f}

\* ------------------------------------------------------------- the inputs
Human(p) == [playerId |-> p, isBot |-> FALSE]
Bot(p) == [playerId |-> p, isBot |-> TRUE]

\* The ids a websocket may present in its playerId query parameter.
PlayerIds == {"A", "B"}

\* The bodies POSTed to /init: three humans (the ids of seats 0 and 2 can
\* connect), and a bot at seat 0 followed by a human.
InitBodies ==
  { [playerOrder |-> <<Human("A"), Human("C"), Human("B")>>, rngSeed |-> 42, terrainId |-> 1],
    [playerOrder |-> <<Bot("X"), Human("A")>>, rngSeed |-> 7, terrainId |-> 0] }

\* Math.floor(Math.random() * 0xFFFFFFFF): any value, here one of a few.
RandomSeeds == {3}

VARIABLES
  gameState,          \* this.gameState
  sockets,            \* this.sockets: playerId -> websocket
  playerIdToIndex,    \* this.playerIdToIndex
  connectedPlayerIds, \* this.connectedPlayerIds
  terrainDamageLog,   \* this.terrainDamageLog
  ballSnapshots,      \* this.ballSnapshots
  phaseStartTime,     \* this.phaseStartTime
  alarm,              \* the Durable Object alarm: {} or {deadline}
  timers,             \* pending setTimeout callbacks (closures)
  stored,             \* the "gameData" record in durable storage: <<>> or <<rec>>
  wsOwner,            \* the open websockets the object accepted: ws -> playerId
  initAwaiting,       \* the number of /init requests suspended at their await
  sent,               \* what the last handler sent: <<[to, msg], ...>>
  handled,            \* the message webSocketMessage last ran on: <<>> or
                      \* <<[ws, msg]>>, emptied by every other step
  putFails            \* storage.put("gameData", ...) rejects at present

vars == <<gameState, sockets, playerIdToIndex, connectedPlayerIds,
          terrainDamageLog, ballSnapshots, phaseStartTime, alarm, timers,
          stored, wsOwner, initAwaiting, sent, handled, putFails>>

SockIds == 1..MaxSockets

BlankBall == [x |-> 0, y |-> 0, vx |-> 0, vy |-> 0, hp |-> 100, alive |-> TRUE]

InitialGameState ==
  [playerOrder |-> <<>>, inputLog |-> <<>>, currentTurnIndex |-> 0,
   turnEndTime |-> Epoch, phase |-> "aiming", rngSeed |-> 0, terrainId |-> 0]

Init ==
  /\ gameState = InitialGameState
  /\ sockets = <<>>
  /\ playerIdToIndex = <<>>
  /\ connectedPlayerIds = {}
  /\ terrainDamageLog = <<>>
  /\ ballSnapshots = <<>>
  /\ phaseStartTime = Epoch
  /\ alarm = {}
  /\ timers = <<>>
  /\ stored = <<>>
  /\ wsOwner = <<>>
  /\ initAwaiting = 0
  /\ sent = <<>>
  /\ handled = <<>>
  /\ putFails = FALSE

\* --------------------------------------------------------------- helpers
numPlayers == Len(gameState.playerOrder)
Initialized == numPlayers > 0

\* A lookup of the current-turn player that finds nobody.
CurrentNobody == {}

\* playerOrder[currentTurnIndex], a set: empty when the index is out of range.
Current ==
  IF gameState.currentTurnIndex + 1 \in DOMAIN gameState.playerOrder
    THEN {gameState.playerOrder[gameState.currentTurnIndex + 1]}
    ELSE {}

\* A message handed to every websocket in this.sockets; a "state" message is
\* given the relative turnTimeRemainingMs.
Broadcast(socks, msg) ==
  [to |-> Range(socks),
   msg |-> IF msg.type = "state"
             THEN [type |-> "state", state |-> msg.state,
                   turnTimeRemainingMs |-> Max(0, msg.state.turnEndTime - now)]
             ELSE msg]

BroadcastExcept(socks, excludePlayerId, msg) ==
  [to |-> {socks[p] : p \in DOMAIN socks \ {excludePlayerId}}, msg |-> msg]

SendTo(ws, msg) == [to |-> {ws}, msg |-> msg]

\* The body of the HTTP response a fetch() returns.
Respond(body) == [to |-> {0}, msg |-> [type |-> "response", body |-> body]]

\* A deadline that leaves out the grace period of the aiming phase.
WatchdogDeadlineNoGrace(gs, pst) ==
  IF gs.phase = "projectile" THEN pst + PROJECTILE_TIMEOUT_MS
  ELSE IF gs.phase = "retreat" THEN pst + RETREAT_TIME_MS
  ELSE gs.turnEndTime

\* The deadline scheduleWatchdog hands to setAlarm.
WatchdogDeadline(gs, pst) ==
  IF gs.phase = "projectile" THEN pst + PROJECTILE_TIMEOUT_MS
  ELSE IF gs.phase = "retreat" THEN pst + RETREAT_TIME_MS
  ELSE gs.turnEndTime + WATCHDOG_GRACE_MS

\* A scheduleWatchdog that arms nothing.
NoWatchdog(gs, pst) == {}

ScheduleWatchdog(gs, pst) == {WatchdogDeadline(gs, pst)}

\* The record persistState writes.
PersistedGameData(gs, tdl, balls, pidx, pst) ==
  [gameState |-> gs, terrainDamageLog |-> tdl, ballSnapshots |-> balls,
   playerIdToIndex |-> pidx, phaseStartTime |-> pst]

\* persistState: the put is not awaited and its rejection is caught and
\* ignored, so a rejected put leaves the stored record as it was.
PersistState(gs, tdl, balls, pidx, pst) ==
  IF putFails THEN stored ELSE <<PersistedGameData(gs, tdl, balls, pidx, pst)>>

\* ---------------------------------------------------------- the bot plan
\* getBotActions: the plan of the bot at the current seat (see below for the
\* numeric parts).  It reads the state it is given and nothing else.
\* 32-bit unsigned arithmetic on two 16-bit halves <<hi, lo>> (TLC's integers
\* are 32-bit signed).
Half == 65536
U32(n) == <<n \div Half, n % Half>>

RECURSIVE XorBits(_, _, _)
XorBits(a, b, n) ==
  IF n = 0 THEN 0
  ELSE 2 * XorBits(a \div 2, b \div 2, n - 1) + (((a % 2) + (b % 2)) % 2)

Xor32(a, b) == <<XorBits(a[1], b[1], 16), XorBits(a[2], b[2], 16)>>

\* (s * 1664525 + 1013904223) >>> 0, with 1664525 = 25 * 2^16 + 26125 and
\* 1013904223 = 15470 * 2^16 + 62303.
Lcg32(s) ==
  LET lowProduct == s[2] * 26125 + 62303
      lo == lowProduct % Half
      hi == (s[1] * 26125 + s[2] * 25 + 15470 + lowProduct \div Half) % Half
  IN <<hi, lo>>

\* The one element of a singleton.  {F(v) : v \in {e}} applies F to the value
\* of e, computed once.
The(S) == CHOOSE v \in S : TRUE

\* A generator that is also keyed by the clock (the turn deadline).
BotRandClock(gs) ==
  The({Lcg32(s) :
         s \in {Xor32(a, b) :
                  a \in {Xor32(U32(gs.rngSeed),
                               U32(gs.currentTurnIndex * 1664525 + 1013904223))},
                  b \in {U32(Len(gs.inputLog) * 22695477 + 1
                               + (gs.turnEndTime - now - TURN_TIME_MS))}}})

\* botRand(): the numerator of the value over 2^32, as two halves.
BotRand(gs) ==
  The({Lcg32(s) :
         s \in {Xor32(a, b) :
                  a \in {Xor32(U32(gs.rngSeed),
                               U32(gs.currentTurnIndex * 1664525 + 1013904223))},
                  b \in {U32(Len(gs.inputLog) * 22695477 + 1)}}})

\* Angles are held in thousandths of a degree, and the product of a random
\* value r = <<hi, lo>> / 2^32 with deg degrees is taken on the upper half:
\* hi * deg * 1000 / 2^16, where 1000 / 2^16 = 125 / 8192.
Scaled(r, deg) == (r[1] * deg * 125) \div 8192

\* Math.floor(r * 45), exactly.
Floor45(r) == (r[1] * 45 + (r[2] * 45) \div Half) \div Half
Floor30(r) == (r[1] * 30 + (r[2] * 30) \div Half) \div Half

\* JSON.stringify({ Fire: { weapon: "Bazooka", angle_deg, power_percent } }):
\* the payload as its tokens and its numbers.
FirePayload(angleMilli, power) ==
  [tokens |-> <<"Fire", "Bazooka">>, angle_deg |-> angleMilli, power_percent |-> power]

\* Math.sin of a whole number of degrees, in millionths: the first quadrant.
SinMicro ==
  <<0, 17452, 34899, 52336, 69756, 87156, 104528, 121869, 139173, 156434,
     173648, 190809, 207912, 224951, 241922, 258819, 275637, 292372, 309017, 325568,
     342020, 358368, 374607, 390731, 406737, 422618, 438371, 453990, 469472, 484810,
     500000, 515038, 529919, 544639, 559193, 573576, 587785, 601815, 615661, 629320,
     642788, 656059, 669131, 681998, 694658, 707107, 719340, 731354, 743145, 754710,
     766044, 777146, 788011, 798636, 809017, 819152, 829038, 838671, 848048, 857167,
     866025, 874620, 882948, 891007, 898794, 906308, 913545, 920505, 927184, 933580,
     939693, 945519, 951057, 956305, 961262, 965926, 970296, 974370, 978148, 981627,
     984808, 987688, 990268, 992546, 994522, 996195, 997564, 998630, 999391, 999848,
     1000000>>

SinDeg(d) ==
  LET a == d % 360
  IN IF a <= 90 THEN SinMicro[a + 1]
     ELSE IF a <= 180 THEN SinMicro[181 - a]
     ELSE IF a <= 270 THEN 0 - SinMicro[a - 179]
     ELSE 0 - SinMicro[361 - a]

CosDeg(d) == SinDeg(d + 90)

\* One iteration of the loop of simYAtX on a shot s that has not ended.
\* Positions are held in thousandths of a pixel and velocities in
\* thousandths of a pixel per second: vx *= 0.99, vy += g * dt (480 * 0.04 =
\* 19.2), x += vx * dt and y += vy * dt (dt = 1 / 25).  On the crossing the
\* result is y - (1 - frac) * vy * dt with frac = |targetX - prevX| /
\* max(|x - prevX|, 0.001); 1 - frac is taken in ten-thousandths.  An ended
\* shot holds its result in res, <<>> for null.
SimStep(s, targetX) ==
  IF s.done THEN s
  ELSE LET vx1 == (s.vx * 99) \div 100
           vy1 == s.vy + 19200
           x1 == s.x + vx1 \div 25
           y1 == s.y + vy1 \div 25
           crossed == (s.x <= targetX /\ x1 >= targetX) \/ (s.x >= targetX /\ x1 <= targetX)
           span == Max(Abs(x1 - s.x), 1)
           part == Abs(targetX - s.x)
           vyStep == vy1 \div 25
           back == IF part = 0 THEN vyStep
                   ELSE ((((span - part) * 10000) \div span) * (vyStep \div 10)) \div 1000
       IN IF crossed THEN [s EXCEPT !.done = TRUE, !.res = <<y1 - back>>]
          ELSE IF y1 > 2500000 THEN [s EXCEPT !.done = TRUE]
          ELSE [vx |-> vx1, vy |-> vy1, x |-> x1, y |-> y1, done |-> FALSE, res |-> <<>>]

\* Two, four, eight and sixteen iterations (an ended shot stays as it is).
SimStep2(s, targetX) == The({SimStep(b, targetX) : b \in {SimStep(s, targetX)}})
SimStep4(s, targetX) == The({SimStep2(b, targetX) : b \in {SimStep2(s, targetX)}})
SimStep8(s, targetX) == The({SimStep4(b, targetX) : b \in {SimStep4(s, targetX)}})
SimStep16(s, targetX) == The({SimStep8(b, targetX) : b \in {SimStep8(s, targetX)}})

\* Iterations step .. 399 of the loop, sixteen at a time.
RECURSIVE SimLoop(_, _, _)
SimLoop(step, s, targetX) ==
  IF step >= 400 \/ s.done THEN s.res
  ELSE The({SimLoop(k, b, targetX) : k \in {step + 16}, b \in {SimStep16(s, targetX)}})

\* simYAtX: the y (in thousandths of a pixel) at which the shot crosses
\* targetX; <<>> is null.  The angle is a whole number of degrees, as every
\* angle of aimAt's grid is when the bearing runs along an axis.
SimYAtX(sx, sy, angleMilli, power, targetX) ==
  The({SimLoop(0, s, t) :
         s \in {[vx |-> (CosDeg(angleMilli \div 1000) * (power * 12)) \div 1000,
                 vy |-> (SinDeg(angleMilli \div 1000) * (power * 12)) \div 1000,
                 x |-> sx * 1000, y |-> sy * 1000, done |-> FALSE, res |-> <<>>]},
         t \in {targetX * 1000}})

AimPowers == <<55, 65, 75, 85, 45, 35>>
AimDeltas == [k \in 1..33 |-> 2 * k - 57]

\* Math.atan2(dy, dx) in thousandths of a degree, to the nearest whole
\* degree: the direction d of the quadrant of (dx, dy) that leaves the least
\* cross product |cos d * dy - sin d * dx| (the first such d).
Atan2Milli(dy, dx) ==
  The({1000 * (CHOOSE v \in off :
                 \A w \in off : v[1] < w[1] \/ (v[1] = w[1] /\ v[2] <= w[2]))[2] :
         off \in {{<<Abs((CosDeg(d) \div 100) * dy - (SinDeg(d) \div 100) * dx), d>> :
                    d \in from..(from + 90)} :
                  from \in {IF dy >= 0 THEN (IF dx >= 0 THEN 0 ELSE 90)
                            ELSE (IF dx >= 0 THEN 0 - 90 ELSE 0 - 180)}}})

\* aimAt: the n-th candidate of the grid, powers outermost.
AimGrid == 6 * 33

AimCand(base, n) ==
  [power |-> AimPowers[((n - 1) \div 33) + 1],
   angleDeg |-> base + 1000 * AimDeltas[((n - 1) % 33) + 1]]

\* Math.abs(landY - ty) of the n-th candidate of the grid around the bearing
\* base, in thousandths of a pixel; <<>> when simYAtX gives null.
AimScoreFrom(base, sx, sy, tx, ty, n) ==
  The({IF y = <<>> THEN <<>> ELSE <<Abs(y[1] - ty * 1000)>> :
         y \in {SimYAtX(sx, sy, c.angleDeg, c.power, tx) : c \in {AimCand(base, n)}}})

\* The scores of the grid: baseRad is taken once, before the loops.
AimScoreRow(sx, sy, tx, ty) ==
  The({SubSeq([n \in 1..AimGrid |-> AimScoreFrom(base, sx, sy, tx, ty, n)], 1, AimGrid) :
         base \in {Atan2Milli(ty - sy, tx - sx)}})

\* The shooter and target positions <<sx, sy, tx, ty>> of the plans the
\* specifications below reach, and their scores, computed once.
KnownAims ==
  << <<0, 0, 0, 0>>, <<44, 0, 400, 0>>, <<88, 0, 1588, 0>>, <<88, 0, 5088, 0>>,
     <<88, 0, 1888, 0>>, <<44, 0, 400, 0 - 356>>, <<22, 0, 300, 0>>,
     <<0, 0, 100, 0>>, <<50, 0, 0, 0>>, <<22, 0, 200, 0>> >>

KnownScores ==
  SubSeq([k \in DOMAIN KnownAims |->
            AimScoreRow(KnownAims[k][1], KnownAims[k][2], KnownAims[k][3], KnownAims[k][4])],
         1, Len(KnownAims))

AimScore(sx, sy, tx, ty, n) ==
  IF \E k \in DOMAIN KnownAims : KnownAims[k] = <<sx, sy, tx, ty>>
    THEN KnownScores[CHOOSE k \in DOMAIN KnownAims : KnownAims[k] = <<sx, sy, tx, ty>>][n]
    ELSE AimScoreFrom(Atan2Milli(ty - sy, tx - sx), sx, sy, tx, ty, n)

\* The scores of the candidates simYAtX gives a value for.
AimScores(sx, sy, tx, ty) ==
  {AimScore(sx, sy, tx, ty, n) : n \in 1..AimGrid} \ {<<>>}

AimLeast(scores) == CHOOSE v \in scores : \A w \in scores : v[1] <= w[1]

\* The loop replaces its best on a strictly smaller score only, so it ends on
\* the first candidate of the least score.
AimFirst(sx, sy, tx, ty, least) ==
  CHOOSE n \in 1..AimGrid :
    /\ AimScore(sx, sy, tx, ty, n) = least
    /\ \A m \in 1..(n - 1) : AimScore(sx, sy, tx, ty, m) # least

\* A comparison that replaces the best on an equal score too.
AimBetterOrEqual(sx, sy, tx, ty, n, best) ==
  The({IF score # <<>> /\ (best = <<>> \/ score[1] <= best[1].score)
         THEN <<[score |-> score[1], n |-> n]>>
         ELSE best :
       score \in {AimScore(sx, sy, tx, ty, n)}})

\* The body of the loops of aimAt for candidate n: best is <<>> while
\* bestScore is Infinity, and holds the best score and the candidate it came
\* from; it is replaced on a strictly smaller score.
AimBetter(sx, sy, tx, ty, n, best) ==
  The({IF score # <<>> /\ (best = <<>> \/ score[1] < best[1].score)
         THEN <<[score |-> score[1], n |-> n]>>
         ELSE best :
       score \in {AimScore(sx, sy, tx, ty, n)}})

\* The inner loop of aimAt (over delta) from candidate n to the end of its
\* row.
RECURSIVE AimRow(_, _, _, _, _, _)
AimRow(sx, sy, tx, ty, n, best) ==
  The({IF n % 33 = 0 THEN b ELSE AimRow(sx, sy, tx, ty, n + 1, b) :
         b \in {AimBetter(sx, sy, tx, ty, n, best)}})

\* The outer loop of aimAt (over powers) from row p on.
RECURSIVE AimSweep(_, _, _, _, _, _)
AimSweep(sx, sy, tx, ty, p, best) ==
  IF p > 6 THEN best
  ELSE The({AimSweep(sx, sy, tx, ty, p + 1, b) :
              b \in {AimRow(sx, sy, tx, ty, 33 * (p - 1) + 1, best)}})

\* aimAt: the grid search; <<>> is null (bestScore > 200, Infinity included).
AimSearch(sx, sy, tx, ty) ==
  The({IF best = <<>> \/ best[1].score > 200 * 1000 THEN <<>>
       ELSE <<AimCand(Atan2Milli(ty - sy, tx - sx), best[1].n)>> :
         best \in {AimSweep(sx, sy, tx, ty, 1, <<>>)}})

\* What aimAt returns for the known positions, computed once.
KnownAimed ==
  SubSeq([k \in DOMAIN KnownAims |->
            AimSearch(KnownAims[k][1], KnownAims[k][2], KnownAims[k][3], KnownAims[k][4])],
         1, Len(KnownAims))

AimAt(sx, sy, tx, ty) ==
  IF \E k \in DOMAIN KnownAims : KnownAims[k] = <<sx, sy, tx, ty>>
    THEN KnownAimed[CHOOSE k \in DOMAIN KnownAims : KnownAims[k] = <<sx, sy, tx, ty>>]
    ELSE AimSearch(sx, sy, tx, ty)

\* The squared distance of two points.
Dist2(ax, ay, bx, by) == (ax - bx) * (ax - bx) + (ay - by) * (ay - by)

\* The fallback shot: no snapshots, no alive unit of its own, or no enemy.
Fallback(r) ==
  [walkDir |-> 0, walkSteps |-> 0,
   fireInput |-> FirePayload(Scaled(r, 120) - 60000, 45 + Floor45(r))]

\* The bot's units among the snapshots (unit i is balls[i + 1]).
BotBallSet(gs, balls) ==
  {i \in {gs.currentTurnIndex + wi * Len(gs.playerOrder) : wi \in 0..(ballsPerTeam - 1)} :
     i < Len(balls)}

\* The first alive unit of the bot, a set.
ShooterOf(gs, balls) ==
  {i \in BotBallSet(gs, balls) :
     /\ balls[i + 1].alive
     /\ \A j \in BotBallSet(gs, balls) : balls[j + 1].alive => i <= j}

Enemies(gs, balls) ==
  {i \in 0..(Len(balls) - 1) : balls[i + 1].alive /\ i \notin BotBallSet(gs, balls)}

\* The comparator of enemies.sort for units a and b seen from shooter s: a
\* weak unit (hp <= 30) closer than 500 goes first, whichever argument it is
\* tested as first; the others go by their distance (the sign of dA - dB is
\* the sign of the difference of the squares).
IsWeakNear(balls, s, i) ==
  /\ balls[i + 1].hp <= 30
  /\ Dist2(balls[i + 1].x, balls[i + 1].y, s.x, s.y) < 500 * 500

\* A comparator that goes by distance alone.
CompareByDistance(balls, s, a, b) ==
  Dist2(balls[a + 1].x, balls[a + 1].y, s.x, s.y)
    - Dist2(balls[b + 1].x, balls[b + 1].y, s.x, s.y)

CompareEnemies(balls, s, a, b) ==
  IF IsWeakNear(balls, s, a) THEN 0 - 1
  ELSE IF IsWeakNear(balls, s, b) THEN 1
  ELSE Dist2(balls[a + 1].x, balls[a + 1].y, s.x, s.y)
         - Dist2(balls[b + 1].x, balls[b + 1].y, s.x, s.y)

\* Array.prototype.sort as the engine of the platform (V8) runs it on a short
\* array: the leading run is counted (and reversed when it descends), and the
\* rest is inserted by binary search.  The comparator is not consistent among
\* weak units, so the order depends on these steps.
RECURSIVE RunLength(_, _, _, _, _)
RunLength(balls, s, arr, idx, desc) ==
  IF idx > Len(arr) THEN Len(arr)
  ELSE LET order == CompareEnemies(balls, s, arr[idx], arr[idx - 1])
       IN IF (desc /\ order >= 0) \/ (~desc /\ order < 0)
            THEN idx - 1
            ELSE RunLength(balls, s, arr, idx + 1, desc)

Reverse(seq) == [k \in 1..Len(seq) |-> seq[Len(seq) + 1 - k]]

RECURSIVE BinarySlot(_, _, _, _, _, _)
BinarySlot(balls, s, arr, pivot, left, right) ==
  IF left >= right THEN left
  ELSE LET mid == left + (right - left) \div 2
       IN IF CompareEnemies(balls, s, pivot, arr[mid + 1]) < 0
            THEN BinarySlot(balls, s, arr, pivot, left, mid)
            ELSE BinarySlot(balls, s, arr, pivot, mid + 1, right)

RECURSIVE InsertionSort(_, _, _, _)
InsertionSort(balls, s, arr, start) ==
  IF start >= Len(arr) THEN arr
  ELSE LET pivot == arr[start + 1]
           slot == BinarySlot(balls, s, arr, pivot, 0, start)
       IN InsertionSort(balls, s,
                        SubSeq(arr, 1, slot) \o <<pivot>> \o SubSeq(arr, slot + 1, start)
                          \o SubSeq(arr, start + 2, Len(arr)),
                        start + 1)

SortEnemies(balls, s, arr) ==
  IF Len(arr) < 2 THEN arr
  ELSE LET desc == CompareEnemies(balls, s, arr[2], arr[1]) < 0
           run == RunLength(balls, s, arr, 3, desc)
       IN InsertionSort(balls, s,
                        IF desc THEN Reverse(SubSeq(arr, 1, run)) \o SubSeq(arr, run + 1, Len(arr))
                                ELSE arr,
                        run)

\* The units of a set in index order (the order of balls.map().filter()).
InIndexOrder(set) ==
  [k \in 1..Cardinality(set) |->
     CHOOSE i \in set : Cardinality({j \in set : j < i}) = k - 1]

\* enemies.sort(...)[0].
TargetOf(balls, enemies, s) == SortEnemies(balls, s, InIndexOrder(enemies))[1]

WalkStepsFor(dist) ==
  IF dist > 500 THEN 4 ELSE IF dist > 300 THEN 2 ELSE IF dist > 150 THEN 1 ELSE 0

WalkDirFor(dx) == IF dx > 0 THEN 1 ELSE 0 - 1

\* The shot at target t from shooter s, given the aim found (or not).
ShotAt(r, aim, s, t) ==
  IF aim # <<>>
    THEN FirePayload(aim[1].angleDeg + (Scaled(r, 14) - 7000), aim[1].power)
    ELSE FirePayload(Atan2Milli(t.y - s.y - 100, t.x - s.x) + (Scaled(r, 20) - 10000),
                     55 + Floor30(r))

\* approxShooterX: where the walk will have taken the shooter.
ApproxShooterX(s, t) ==
  s.x + WalkDirFor(t.x - s.x) * WalkStepsFor(Abs(t.x - s.x)) * 22

PlanAgainst(r, s, t) ==
  [walkDir |-> WalkDirFor(t.x - s.x),
   walkSteps |-> WalkStepsFor(Abs(t.x - s.x)),
   fireInput |->
     CHOOSE shot \in {ShotAt(r, aim, s, t) :
                        aim \in {AimAt(asx, s.y, t.x, t.y) : asx \in {ApproxShooterX(s, t)}}} :
       TRUE]

GetBotActions(gs, balls) ==
  IF Len(balls) = 0 \/ ShooterOf(gs, balls) = {} \/ Enemies(gs, balls) = {}
    THEN Fallback(BotRand(gs))
    ELSE CHOOSE plan \in
           {PlanAgainst(r, balls[shooter + 1], balls[target + 1]) :
              r \in {BotRand(gs)},
              shooter \in ShooterOf(gs, balls),
              target \in {TargetOf(balls, Enemies(gs, balls),
                                    balls[(CHOOSE i \in ShooterOf(gs, balls) : TRUE) + 1])}} :
             TRUE

IsBotTurn(gs) ==
  /\ gs.currentTurnIndex + 1 \in DOMAIN gs.playerOrder
  /\ gs.playerOrder[gs.currentTurnIndex + 1].isBot

\* maybeBotTurn, its synchronous part: the aim preview it broadcasts (the
\* angle of the fire payload; in thousandths of a degree here) ...
MaybeBotTurnSent(gs, balls, socks) ==
  IF IsBotTurn(gs)
    THEN <<Broadcast(socks, [type |-> "aim",
                             aim |-> GetBotActions(gs, balls).fireInput.angle_deg,
                             turnIndex |-> gs.currentTurnIndex])>>
    ELSE <<>>

\* ... and the doStep closure it defers by 600 ms.
MaybeBotTurnTimers(gs, balls) ==
  IF IsBotTurn(gs)
    THEN LET plan == GetBotActions(gs, balls)
         IN <<[kind |-> "doStep", due |-> now + BOT_THINK_MS,
               turnIndex |-> gs.currentTurnIndex, stepIdx |-> 0,
               walkDir |-> plan.walkDir, walkSteps |-> plan.walkSteps,
               fireInput |-> plan.fireInput]>>
    ELSE <<>>

\* ------------------------------------------------------------ advanceTurn
\* An advance that passes over the next seat.
AdvancedGameStateSkip(gs) ==
  [gs EXCEPT !.currentTurnIndex = (gs.currentTurnIndex + 2) % Len(gs.playerOrder),
             !.phase = "aiming",
             !.turnEndTime = now + TURN_TIME_MS]

\* An advance that does not wrap around at the last seat.
AdvancedGameStateNoWrap(gs) ==
  [gs EXCEPT !.currentTurnIndex = gs.currentTurnIndex + 1,
             !.phase = "aiming",
             !.turnEndTime = now + TURN_TIME_MS]

AdvancedGameState(gs) ==
  [gs EXCEPT !.currentTurnIndex = (gs.currentTurnIndex + 1) % Len(gs.playerOrder),
             !.phase = "aiming",
             !.turnEndTime = now + TURN_TIME_MS]

\* An advance that broadcasts the state and no turn_advanced notice.
AdvanceTurnUnannounced(pre, rest) ==
  /\ gameState' = AdvancedGameState(gameState)
  /\ phaseStartTime' = now
  /\ alarm' = ScheduleWatchdog(gameState', phaseStartTime')
  /\ stored' = PersistState(gameState', terrainDamageLog, ballSnapshots,
                            playerIdToIndex, phaseStartTime')
  /\ timers' = rest \o MaybeBotTurnTimers(gameState', ballSnapshots)
  /\ sent' = pre
       \o <<Broadcast(sockets, [type |-> "state", state |-> gameState'])>>
       \o MaybeBotTurnSent(gameState', ballSnapshots, sockets)

\* advanceTurn() followed by maybeBotTurn(): `pre' is what the caller has
\* already sent, `rest' the callbacks still pending.
AdvanceTurnAndMaybeBot(pre, rest) ==
  /\ gameState' = AdvancedGameState(gameState)
  /\ phaseStartTime' = now
  /\ alarm' = ScheduleWatchdog(gameState', phaseStartTime')
  /\ stored' = PersistState(gameState', terrainDamageLog, ballSnapshots,
                            playerIdToIndex, phaseStartTime')
  /\ timers' = rest \o MaybeBotTurnTimers(gameState', ballSnapshots)
  /\ sent' = pre
       \o <<Broadcast(sockets, [type |-> "turn_advanced",
                                turnIndex |-> gameState'.currentTurnIndex,
                                balls |-> ballSnapshots,
                                terrainLog |-> terrainDamageLog]),
            Broadcast(sockets, [type |-> "state", state |-> gameState'])>>
       \o MaybeBotTurnSent(gameState', ballSnapshots, sockets)

\* --------------------------------------------------------------- /init
\* A handleInit without the idempotency check: it always reads the body.
HandleInitBeginUnchecked ==
  /\ handled' = <<>>
  /\ UNCHANGED putFails
  /\ initAwaiting < MaxInitCalls
  /\ initAwaiting' = initAwaiting + 1
  /\ sent' = <<>>
  /\ UNCHANGED <<gameState, sockets, playerIdToIndex, connectedPlayerIds,
                 terrainDamageLog, ballSnapshots, phaseStartTime, alarm,
                 timers, stored, wsOwner>>

\* handleInit up to its await of the request body: the idempotency check.
HandleInitBegin ==
  /\ handled' = <<>>
  /\ UNCHANGED putFails
  /\ IF Len(gameState.playerOrder) > 0
       THEN /\ sent' = <<Respond([ok |-> TRUE, alreadyInitialized |-> TRUE])>>
            /\ UNCHANGED initAwaiting
       ELSE /\ initAwaiting < MaxInitCalls
            /\ initAwaiting' = initAwaiting + 1
            /\ sent' = <<>>
  /\ UNCHANGED <<gameState, sockets, playerIdToIndex, connectedPlayerIds,
                 terrainDamageLog, ballSnapshots, phaseStartTime, alarm,
                 timers, stored, wsOwner>>

\* playerOrder.forEach((p, i) => playerIdToIndex.set(p.playerId, i))
SeatTable(order) ==
  [p \in {order[i].playerId : i \in DOMAIN order} |->
     (CHOOSE i \in DOMAIN order :
        /\ order[i].playerId = p
        /\ \A j \in DOMAIN order : order[j].playerId = p => j <= i) - 1]

\* handleInit from the completion of `await request.json()` to its return.
\* The identity messages go to distinct sockets, one each; they are listed
\* here by socket id (the Map iterates in insertion order, which no single
\* recipient can observe).
HandleInitResume(body, rnd) ==
  /\ handled' = <<>>
  /\ UNCHANGED putFails
  /\ initAwaiting > 0
  /\ initAwaiting' = initAwaiting - 1
  /\ LET order == IF "playerOrder" \in DOMAIN body THEN body.playerOrder ELSE <<>>
         seed == IF "rngSeed" \in DOMAIN body THEN body.rngSeed ELSE rnd
         tid == IF "terrainId" \in DOMAIN body THEN body.terrainId ELSE 0
     IN /\ gameState' = [playerOrder |-> order, inputLog |-> <<>>,
                         currentTurnIndex |-> 0, phase |-> "aiming",
                         turnEndTime |-> now + TURN_TIME_MS,
                         rngSeed |-> seed, terrainId |-> tid]
        /\ playerIdToIndex' = SeatTable(order)
        /\ ballSnapshots' = [i \in 1..(Len(order) * ballsPerTeam) |-> BlankBall]
  /\ sent' =
          LET seated == {p \in DOMAIN sockets : p \in DOMAIN playerIdToIndex'}
              Ident(p) == SendTo(sockets[p],
                            [type |-> "identity", myPlayerIndex |-> playerIdToIndex'[p],
                             playerId |-> p, rngSeed |-> gameState'.rngSeed])
              RECURSIVE Each(_)
              Each(S) == IF S = {} THEN <<>>
                         ELSE LET p == CHOOSE q \in S : \A r \in S : sockets[q] <= sockets[r]
                              IN <<Ident(p)>> \o Each(S \ {p})
          IN Each(seated)
       \o <<Broadcast(sockets, [type |-> "state", state |-> gameState']),
            Respond([ok |-> TRUE])>>
  /\ Len(timers) < MaxTimers
  /\ timers' = timers \o
       (IF Len(gameState'.playerOrder) > 0 /\ gameState'.playerOrder[1].isBot
          THEN <<[kind |-> "maybeBotTurn", due |-> now + BOT_KICKOFF_MS]>>
          ELSE <<>>)
  /\ phaseStartTime' = now
  /\ alarm' = ScheduleWatchdog(gameState', phaseStartTime')
  /\ stored' = PersistState(gameState', terrainDamageLog, ballSnapshots',
                            playerIdToIndex', phaseStartTime')
  /\ UNCHANGED <<sockets, connectedPlayerIds, terrainDamageLog, wsOwner>>

\* -------------------------------------------------------- the connections
\* A terrain_sync that is left out when the log is empty.
TerrainSyncIfAny(ws) ==
  IF terrainDamageLog = <<>> THEN <<>>
  ELSE <<SendTo(ws, [type |-> "terrain_sync", log |-> terrainDamageLog])>>

\* Lines 163-168: the terrain_sync of a (re)connect, whatever the log holds.
TerrainSync(ws) ==
  <<SendTo(ws, [type |-> "terrain_sync", log |-> terrainDamageLog])>>

\* A progress test that every session passes.
ProgressedAlways == TRUE

\* Line 175: gameHasProgressed.
GameHasProgressed ==
  Len(gameState.inputLog) > 0 \/ gameState.currentTurnIndex > 0

\* A time figure that is not clamped at zero.
TurnTimeRemainingUnclamped == gameState.turnEndTime - now

\* Line 174: turnTimeRemainingMs.
TurnTimeRemainingMs == Max(0, gameState.turnEndTime - now)

\* A registration that keeps the websocket an id already has.
SocketsKeep(socks, playerId, ws) == socks @@ (playerId :> ws)

\* Line 146: this.sockets.set(playerId, server).
SocketsSet(socks, playerId, ws) == (playerId :> ws) @@ socks

\* fetch() with Upgrade: websocket and ?playerId=p: handleWebSocket.
HandleWebSocketOn(playerId, ws) ==
  /\ handled' = <<>>
  /\ UNCHANGED putFails
  /\ wsOwner' = (ws :> playerId) @@ wsOwner
  /\ sockets' = SocketsSet(sockets, playerId, ws)
  /\ connectedPlayerIds' = connectedPlayerIds \cup {playerId}
  /\ sent' =
       (IF playerId \in DOMAIN playerIdToIndex
          THEN LET myPlayerIndex == playerIdToIndex[playerId]
                   turnTimeRemainingMs == TurnTimeRemainingMs
               IN << SendTo(ws, [type |-> "identity", myPlayerIndex |-> myPlayerIndex,
                                 playerId |-> playerId, rngSeed |-> gameState.rngSeed]) >>
                  \o TerrainSync(ws)
                  \o << SendTo(ws, IF GameHasProgressed
                                  THEN [type |-> "game_resync", phase |-> gameState.phase,
                                        currentTurnIndex |-> gameState.currentTurnIndex,
                                        turnTimeRemainingMs |-> turnTimeRemainingMs,
                                        balls |-> ballSnapshots]
                                  ELSE [type |-> "game_resync", phase |-> gameState.phase,
                                        currentTurnIndex |-> gameState.currentTurnIndex,
                                        turnTimeRemainingMs |-> turnTimeRemainingMs]),
                     BroadcastExcept(sockets', playerId,
                                     [type |-> "player_connected",
                                      playerIndex |-> myPlayerIndex]) >>
          ELSE <<>>)
       \o <<Broadcast(sockets', [type |-> "state", state |-> gameState])>>
  /\ UNCHANGED <<gameState, playerIdToIndex, terrainDamageLog, ballSnapshots,
                 phaseStartTime, alarm, timers, stored, initAwaiting>>

\* The websocket object of a new connection: any object not yet in use (the
\* least one, the objects being interchangeable).
HandleWebSocket(playerId) ==
  /\ SockIds \ DOMAIN wsOwner # {}
  /\ LET ws == CHOOSE w \in SockIds \ DOMAIN wsOwner :
                 \A v \in SockIds \ DOMAIN wsOwner : w <= v
     IN HandleWebSocketOn(playerId, ws)

\* A lookup by the playerId the websocket was opened with.
SenderByOwner(ws) == IF ws \in DOMAIN wsOwner THEN {wsOwner[ws]} ELSE {}

\* The playerId under which this.sockets holds websocket ws, a set.
SenderOf(ws) == {p \in DOMAIN sockets : sockets[p] = ws}

\* webSocketClose(ws): the client's end of an accepted websocket went away.
WebSocketClose(ws) ==
  /\ handled' = <<>>
  /\ UNCHANGED putFails
  /\ ws \in DOMAIN wsOwner
  /\ wsOwner' = [w \in DOMAIN wsOwner \ {ws} |-> wsOwner[w]]
  /\ IF SenderOf(ws) = {}
       THEN /\ sent' = <<>>
            /\ UNCHANGED <<sockets, connectedPlayerIds, alarm>>
       ELSE LET pid == CHOOSE p \in SenderOf(ws) : TRUE
            IN /\ sockets' = [p \in DOMAIN sockets \ {pid} |-> sockets[p]]
               /\ connectedPlayerIds' = connectedPlayerIds \ {pid}
               /\ IF pid \in DOMAIN playerIdToIndex
                    THEN LET playerIndex == playerIdToIndex[pid]
                             isActiveTurnPlayer ==
                               /\ playerIndex = gameState.currentTurnIndex
                               /\ gameState.phase = "aiming"
                         IN /\ sent' = <<Broadcast(sockets',
                                           [type |-> "player_disconnected",
                                            playerIndex |-> playerIndex])>>
                            /\ alarm' = IF isActiveTurnPlayer
                                             /\ Len(gameState.playerOrder) > 0
                                          THEN {now + DISCONNECT_ADVANCE_MS}
                                          ELSE alarm
                    ELSE /\ sent' = <<>>
                         /\ UNCHANGED alarm
  /\ UNCHANGED <<gameState, playerIdToIndex, terrainDamageLog, ballSnapshots,
                 phaseStartTime, timers, stored, initAwaiting>>

\* ------------------------------------------------------------ the watchdog
\* alarm(): the handler, whenever the platform invokes it.  The alarm is no
\* longer armed when the handler runs.
AlarmHandler ==
  /\ handled' = <<>>
  /\ UNCHANGED putFails
  /\ IF Len(gameState.playerOrder) = 0
       THEN /\ alarm' = {}
            /\ sent' = <<>>
            /\ UNCHANGED <<gameState, phaseStartTime, stored, timers>>
     ELSE IF gameState.phase = "projectile"
       THEN IF now >= phaseStartTime + PROJECTILE_TIMEOUT_MS
              THEN AdvanceTurnAndMaybeBot(
                     <<Broadcast(sockets, [type |-> "force_advance",
                                           reason |-> "projectile_timeout"])>>, timers)
              ELSE /\ alarm' = ScheduleWatchdog(gameState, phaseStartTime)
                   /\ sent' = <<>>
                   /\ UNCHANGED <<gameState, phaseStartTime, stored, timers>>
     ELSE IF gameState.phase = "retreat"
       THEN IF now >= phaseStartTime + RETREAT_TIME_MS
              THEN AdvanceTurnAndMaybeBot(
                     <<Broadcast(sockets, [type |-> "force_advance",
                                           reason |-> "retreat_timeout"])>>, timers)
              ELSE /\ alarm' = ScheduleWatchdog(gameState, phaseStartTime)
                   /\ sent' = <<>>
                   /\ UNCHANGED <<gameState, phaseStartTime, stored, timers>>
     ELSE LET activeIsConnected ==
                \E cur \in Current : cur.playerId \in connectedPlayerIds
          IN IF ~activeIsConnected
               THEN AdvanceTurnAndMaybeBot(
                      <<Broadcast(sockets, [type |-> "force_advance",
                                            reason |-> "player_disconnected"])>>, timers)
             ELSE IF now >= gameState.turnEndTime + WATCHDOG_GRACE_MS
               THEN AdvanceTurnAndMaybeBot(
                      <<Broadcast(sockets, [type |-> "force_advance",
                                            reason |-> "turn_timeout"])>>, timers)
             ELSE /\ alarm' = ScheduleWatchdog(gameState, phaseStartTime)
                  /\ sent' = <<>>
                  /\ UNCHANGED <<gameState, phaseStartTime, stored, timers>>
  /\ UNCHANGED <<sockets, playerIdToIndex, connectedPlayerIds, terrainDamageLog,
                 ballSnapshots, wsOwner, initAwaiting>>

\* The platform runs alarm() at or after the armed deadline.
Alarm == (\E t \in alarm : t <= now) /\ AlarmHandler

\* -------------------------------------------------------- webSocketMessage
\* A parsed message is a record; a field the JSON lacks (or that has the
\* wrong type) is absent from the record, and a text JSON.parse rejects is a
\* record without `type'.
TypeOf(m) == IF "type" \in DOMAIN m THEN m.type ELSE ""

\* A classification that takes every input for a firing action.
IsFiringAny(input) == TRUE

\* msg.input.includes('"Fire"'): the payload, a sequence of tokens, holds
\* the token "Fire".
IsFiring(input) == \E i \in DOMAIN input.tokens : input.tokens[i] = "Fire"

\* The JSON values of the snapshot fields of a message, with their typeof.
Num(n) == [num |-> n]
Str(t) == [str |-> t]
Bool(b) == [bool |-> b]

\* typeof v === "number" for every field but alive, "boolean" for alive.
RightType(f, v) == IF f = "alive" THEN "bool" \in DOMAIN v ELSE "num" \in DOMAIN v

ValueOf(v) == IF "num" \in DOMAIN v THEN v.num ELSE v.bool

\* An overwrite that resets the fields the update does not give.
ApplyFieldsResetting(snap, b, fields) ==
  [f \in DOMAIN snap |->
     IF f \in fields
       THEN IF f \in DOMAIN b /\ RightType(f, b[f]) THEN ValueOf(b[f])
            ELSE BlankBall[f]
       ELSE snap[f]]

\* The field-wise overwrite of one snapshot by a (partial) update: a field
\* is written when the update has it with the right type.
ApplyFields(snap, b, fields) ==
  [f \in DOMAIN snap |->
     IF f \in fields /\ f \in DOMAIN b /\ RightType(f, b[f])
       THEN ValueOf(b[f]) ELSE snap[f]]

PosFields == {"x", "y", "vx", "vy"}
BallFields == {"x", "y", "vx", "vy", "hp", "alive"}

\* A push that puts the new input in front of the log.
PushLogFront(log, input) == IF Len(log) < MaxLog THEN <<input>> \o log ELSE log

\* inputLog.push(input).  The log is represented exactly up to MaxLog entries;
\* a push onto a log of MaxLog entries leaves the representation as it is.  The
\* safety specifications never push onto a full log (LogHasRoom); only the
\* liveness specifications, which need runs with unboundedly many fires, do.
PushLog(log, input) == IF Len(log) < MaxLog THEN Append(log, input) ELSE log

LogHasRoom == Len(gameState.inputLog) < MaxLog

\* A turn check that lets every seat through.
TurnCheckOff(idx) == FALSE

\* The check of line 577: the sender is not the current-turn player.
NotSendersTurn(idx) == gameState.currentTurnIndex # idx

\* A retreat_start that is taken in every phase.
RetreatAlways == TRUE

\* The check of line 631: retreat_start is valid in the projectile phase only.
RetreatAllowed == gameState.phase = "projectile"

\* A merge that takes every array, whatever its length.
MergeAlways(m) == "log" \in DOMAIN m

\* The check of line 520: the candidate log is an array at least as long.
MergeAccepts(m) == "log" \in DOMAIN m /\ Len(m.log) >= Len(terrainDamageLog)

\* The check of lines 536-542: the unit exists and belongs to the sender.
OwnsBall(idx, m) ==
  /\ "bi" \in DOMAIN m
  /\ m.bi >= 0
  /\ m.bi < Len(ballSnapshots)
  /\ numPlayers > 0
  /\ m.bi % numPlayers = idx

\* A message that is dropped: nothing changes and nothing is sent.
Dropped ==
  /\ sent' = <<>>
  /\ UNCHANGED <<gameState, terrainDamageLog, ballSnapshots, phaseStartTime,
                 alarm, timers, stored>>

\* A terrain check that lets every seat through.
TerrainFromAnySeat(idx) == TRUE

\* The check of line 518: the sender is the current-turn player.
TerrainFromCurrent(idx) == idx = gameState.currentTurnIndex

TerrainDamages(idx, m) ==
  IF ~TerrainFromCurrent(idx) THEN Dropped
  ELSE IF MergeAccepts(m)
    THEN /\ terrainDamageLog' = m.log
         /\ stored' = PersistState(gameState, terrainDamageLog', ballSnapshots,
                                   playerIdToIndex, phaseStartTime)
         /\ sent' = <<>>
         /\ UNCHANGED <<gameState, ballSnapshots, phaseStartTime, alarm, timers>>
  ELSE Dropped

PosUpdate(idx, m) ==
  IF OwnsBall(idx, m)
    THEN /\ ballSnapshots' = [ballSnapshots EXCEPT ![m.bi + 1] =
                                ApplyFields(@, m, PosFields)]
         /\ sent' = <<Broadcast(sockets, m)>>
         /\ UNCHANGED <<gameState, terrainDamageLog, phaseStartTime, alarm,
                        timers, stored>>
    ELSE Dropped

\* A restart that leaves the turn where it is.
RestartKeepingTurn(m) ==
  /\ gameState' = [gameState EXCEPT !.rngSeed = m.seed, !.inputLog = <<>>,
                                    !.phase = "aiming",
                                    !.turnEndTime = now + TURN_TIME_MS]
  /\ phaseStartTime' = now
  /\ ballSnapshots' = <<>>
  /\ terrainDamageLog' = <<>>
  /\ sent' = <<Broadcast(sockets, [type |-> "restart", seed |-> m.seed]),
               Broadcast(sockets, [type |-> "state", state |-> gameState'])>>
  /\ alarm' = ScheduleWatchdog(gameState', phaseStartTime')
  /\ stored' = PersistState(gameState', terrainDamageLog', ballSnapshots',
                            playerIdToIndex, phaseStartTime')
  /\ UNCHANGED timers

Restart(m) ==
  /\ gameState' = [gameState EXCEPT !.rngSeed = m.seed, !.inputLog = <<>>,
                                    !.currentTurnIndex = 0, !.phase = "aiming",
                                    !.turnEndTime = now + TURN_TIME_MS]
  /\ phaseStartTime' = now
  /\ ballSnapshots' = <<>>
  /\ terrainDamageLog' = <<>>
  /\ sent' = <<Broadcast(sockets, [type |-> "restart", seed |-> m.seed]),
               Broadcast(sockets, [type |-> "state", state |-> gameState'])>>
  /\ alarm' = ScheduleWatchdog(gameState', phaseStartTime')
  /\ stored' = PersistState(gameState', terrainDamageLog', ballSnapshots',
                            playerIdToIndex, phaseStartTime')
  /\ UNCHANGED timers

\* A fire that waits for the put and is abandoned when the put rejects: the
\* statements after persistState (the two broadcasts) do not run.
InputAwaitingPut(m) ==
  IF IsFiring(m.input)
    THEN /\ gameState' = [gameState EXCEPT !.inputLog = PushLog(@, m.input),
                                           !.phase = "projectile"]
         /\ phaseStartTime' = now
         /\ alarm' = ScheduleWatchdog(gameState', phaseStartTime')
         /\ stored' = PersistState(gameState', terrainDamageLog, ballSnapshots,
                                   playerIdToIndex, phaseStartTime')
         /\ sent' = IF putFails THEN <<>>
                    ELSE <<Broadcast(sockets, [type |-> "input", input |-> m.input,
                                               turnIndex |-> gameState'.currentTurnIndex]),
                           Broadcast(sockets, [type |-> "state", state |-> gameState'])>>
         /\ UNCHANGED <<terrainDamageLog, ballSnapshots, timers>>
    ELSE /\ sent' = <<Broadcast(sockets, [type |-> "input", input |-> m.input,
                                          turnIndex |-> gameState.currentTurnIndex])>>
         /\ UNCHANGED <<gameState, terrainDamageLog, ballSnapshots,
                        phaseStartTime, alarm, timers, stored>>

Input(m) ==
  IF IsFiring(m.input)
    THEN /\ gameState' = [gameState EXCEPT !.inputLog = PushLog(@, m.input),
                                           !.phase = "projectile"]
         /\ phaseStartTime' = now
         /\ alarm' = ScheduleWatchdog(gameState', phaseStartTime')
         /\ stored' = PersistState(gameState', terrainDamageLog, ballSnapshots,
                                   playerIdToIndex, phaseStartTime')
         /\ sent' = <<Broadcast(sockets, [type |-> "input", input |-> m.input,
                                          turnIndex |-> gameState'.currentTurnIndex]),
                      Broadcast(sockets, [type |-> "state", state |-> gameState'])>>
         /\ UNCHANGED <<terrainDamageLog, ballSnapshots, timers>>
    ELSE /\ sent' = <<Broadcast(sockets, [type |-> "input", input |-> m.input,
                                          turnIndex |-> gameState.currentTurnIndex])>>
         /\ UNCHANGED <<gameState, terrainDamageLog, ballSnapshots,
                        phaseStartTime, alarm, timers, stored>>

Aim(m) ==
  /\ sent' = <<Broadcast(sockets, [type |-> "aim", aim |-> m.aim,
                                   turnIndex |-> gameState.currentTurnIndex])>>
  /\ UNCHANGED <<gameState, terrainDamageLog, ballSnapshots, phaseStartTime,
                 alarm, timers, stored>>

BallState(m) ==
  /\ ballSnapshots' =
       IF "balls" \in DOMAIN m
         THEN [i \in DOMAIN ballSnapshots |->
                 IF i \in DOMAIN m.balls
                   THEN ApplyFields(ballSnapshots[i], m.balls[i], BallFields)
                   ELSE ballSnapshots[i]]
         ELSE ballSnapshots
  /\ sent' = <<Broadcast(sockets, m)>>
  /\ stored' = PersistState(gameState, terrainDamageLog, ballSnapshots',
                            playerIdToIndex, phaseStartTime)
  /\ UNCHANGED <<gameState, terrainDamageLog, phaseStartTime, alarm, timers>>

RetreatStart ==
  IF RetreatAllowed
    THEN /\ gameState' = [gameState EXCEPT !.phase = "retreat"]
         /\ phaseStartTime' = now
         /\ alarm' = ScheduleWatchdog(gameState', phaseStartTime')
         /\ stored' = PersistState(gameState', terrainDamageLog, ballSnapshots,
                                   playerIdToIndex, phaseStartTime')
         /\ sent' = <<>>
         /\ UNCHANGED <<terrainDamageLog, ballSnapshots, timers>>
    ELSE Dropped

EndTurn ==
  /\ Len(timers) < MaxTimers
  /\ AdvanceTurnAndMaybeBot(<<>>, timers)
  /\ UNCHANGED <<terrainDamageLog, ballSnapshots>>

\* webSocketMessage(ws, message): one inbound message on websocket ws.
WebSocketMessage(ws, m) ==
  /\ ws \in DOMAIN wsOwner
  /\ handled' = <<[ws |-> ws, msg |-> m]>>
  /\ UNCHANGED putFails
  /\ IF SenderOf(ws) = {} THEN Dropped
     ELSE LET playerId == CHOOSE p \in SenderOf(ws) : TRUE
          IN IF playerId \notin DOMAIN playerIdToIndex THEN Dropped
             ELSE LET idx == playerIdToIndex[playerId]
                      type == TypeOf(m)
                  IN IF type = "terrain_damages" THEN TerrainDamages(idx, m)
                     ELSE IF type = "pos_update" THEN PosUpdate(idx, m)
                     ELSE IF type = "restart" /\ "seed" \in DOMAIN m THEN Restart(m)
                     ELSE IF NotSendersTurn(idx) THEN Dropped
                     ELSE IF \E cur \in Current : cur.isBot THEN Dropped
                     ELSE IF type = "input" /\ "input" \in DOMAIN m THEN Input(m)
                     ELSE IF type = "aim" /\ "aim" \in DOMAIN m THEN Aim(m)
                     ELSE IF type = "ball_state" THEN BallState(m)
                     ELSE IF type = "retreat_start" THEN RetreatStart
                     ELSE IF type = "end_turn" THEN EndTurn
                     ELSE Dropped
  /\ UNCHANGED <<sockets, playerIdToIndex, connectedPlayerIds, wsOwner, initAwaiting>>

\* ------------------------------------------------------- the bot callbacks
RemoveAt(s, i) == [j \in 1..(Len(s) - 1) |-> IF j < i THEN s[j] ELSE s[j + 1]]

\* The callback of handleInit's setTimeout(() => this.maybeBotTurn(), 500).
MaybeBotTurnCallback(i) ==
  /\ handled' = <<>>
  /\ UNCHANGED putFails
  /\ i \in DOMAIN timers
  /\ timers[i].kind = "maybeBotTurn"
  /\ timers[i].due <= now
  /\ timers' = RemoveAt(timers, i) \o MaybeBotTurnTimers(gameState, ballSnapshots)
  /\ sent' = MaybeBotTurnSent(gameState, ballSnapshots, sockets)
  /\ UNCHANGED <<gameState, sockets, playerIdToIndex, connectedPlayerIds,
                 terrainDamageLog, ballSnapshots, phaseStartTime, alarm, stored,
                 wsOwner, initAwaiting>>

\* A test that lets one walk step too many through.
StepIsWalkOnceMore(t) == t.stepIdx <= t.walkSteps

\* The test of line 665: the chain has walk steps left.
StepIsWalk(t) == t.stepIdx < t.walkSteps

\* doStep: one walk step, or the fire.
DoStep(i) ==
  /\ handled' = <<>>
  /\ UNCHANGED putFails
  /\ i \in DOMAIN timers
  /\ timers[i].kind = "doStep"
  /\ timers[i].due <= now
  /\ LET t == timers[i]
         rest == RemoveAt(timers, i)
     IN IF gameState.currentTurnIndex # t.turnIndex
          THEN /\ timers' = rest
               /\ sent' = <<>>
               /\ UNCHANGED <<gameState, phaseStartTime, alarm>>
        ELSE IF StepIsWalk(t)
          THEN /\ sent' = <<Broadcast(sockets,
                              [type |-> "input",
                               input |-> IF t.walkDir > 0
                                           THEN [tokens |-> <<"Walk", "dir", "1.0">>]
                                           ELSE [tokens |-> <<"Walk", "dir", "-1.0">>],
                               turnIndex |-> t.turnIndex])>>
               /\ timers' = Append(rest, [t EXCEPT !.stepIdx = @ + 1,
                                                   !.due = now + BOT_STEP_MS])
               /\ UNCHANGED <<gameState, phaseStartTime, alarm>>
        ELSE /\ gameState' = [gameState EXCEPT !.inputLog = PushLog(@, t.fireInput),
                                               !.phase = "projectile"]
             /\ phaseStartTime' = now
             /\ alarm' = ScheduleWatchdog(gameState', phaseStartTime')
             /\ sent' = <<Broadcast(sockets, [type |-> "input", input |-> t.fireInput,
                                              turnIndex |-> t.turnIndex]),
                          Broadcast(sockets, [type |-> "state", state |-> gameState'])>>
             /\ timers' = Append(rest, [kind |-> "postFire",
                                        due |-> now + BOT_POSTFIRE_MS,
                                        turnIndex |-> t.turnIndex])
  /\ UNCHANGED <<sockets, playerIdToIndex, connectedPlayerIds, terrainDamageLog,
                 ballSnapshots, stored, wsOwner, initAwaiting>>

\* The callback deferred 1500 ms after the bot's fire.
PostFire(i) ==
  /\ handled' = <<>>
  /\ UNCHANGED putFails
  /\ i \in DOMAIN timers
  /\ timers[i].kind = "postFire"
  /\ timers[i].due <= now
  /\ IF gameState.currentTurnIndex = timers[i].turnIndex
       THEN AdvanceTurnAndMaybeBot(<<>>, RemoveAt(timers, i))
       ELSE /\ timers' = RemoveAt(timers, i)
            /\ sent' = <<>>
            /\ UNCHANGED <<gameState, phaseStartTime, alarm, stored>>
  /\ UNCHANGED <<sockets, playerIdToIndex, connectedPlayerIds, terrainDamageLog,
                 ballSnapshots, wsOwner, initAwaiting>>

\* ------------------------------------------------------------------ time
Shift(t, d) == Max(t - d, 0 - Horizon)

PendingDues == alarm \cup {timers[i].due : i \in DOMAIN timers}

\* d milliseconds pass; no due alarm or callback is left waiting for more
\* than MaxLate.
Tick(d) ==
  /\ handled' = <<>>
  /\ UNCHANGED putFails
  /\ d > 0
  /\ \A t \in PendingDues : t - d >= 0 - MaxLate
  /\ gameState' = [gameState EXCEPT !.turnEndTime = Shift(@, d)]
  /\ phaseStartTime' = Shift(phaseStartTime, d)
  /\ alarm' = {Shift(t, d) : t \in alarm}
  /\ timers' = [i \in DOMAIN timers |-> [timers[i] EXCEPT !.due = Shift(@, d)]]
  /\ stored' = [i \in DOMAIN stored |->
                  [stored[i] EXCEPT !.gameState.turnEndTime = Shift(@, d),
                                    !.phaseStartTime = Shift(@, d)]]
  /\ sent' = <<>>
  /\ UNCHANGED <<sockets, playerIdToIndex, connectedPlayerIds, terrainDamageLog,
                 ballSnapshots, wsOwner, initAwaiting>>

TickChoices == {TickStep} \cup {t \in PendingDues : t > 0}

\* ------------------------------------------------------------ the inputs
FireInput == [tokens |-> <<"Fire", "Bazooka">>]
JumpInput == [tokens |-> <<"Jump">>]

IsFireMsg(m) == TypeOf(m) = "input" /\ "input" \in DOMAIN m /\ IsFiring(m.input)

\* The messages of the turn state machine.
TurnMsgs ==
  { [type |-> "input", input |-> FireInput],
    [type |-> "input", input |-> JumpInput],
    [type |-> "aim", aim |-> 1],
    [type |-> "retreat_start"],
    [type |-> "end_turn"],
    [type |-> "restart", seed |-> 9] }

\* ---------------------------------------------------- the environment steps
\* /init requests that do not overlap: one starts when none is suspended.
InitBeginSequential == initAwaiting = 0 /\ HandleInitBegin

InitResume == \E body \in InitBodies, rnd \in RandomSeeds : HandleInitResume(body, rnd)

\* Clients that connect before the lobby's /init arrives, each while it has
\* no registered websocket (a client that connects again is `Connect').
ConnectBeforeInit ==
  \E p \in PlayerIds : ~Initialized /\ p \notin DOMAIN sockets /\ HandleWebSocket(p)

Close == \E ws \in SockIds : WebSocketClose(ws)

\* The seat of the player registered under websocket ws, a set.
SeatOf(ws) == {playerIdToIndex[p] : p \in SenderOf(ws) \cap DOMAIN playerIdToIndex}

\* Websocket ws is the registered socket of the current-turn player.
IsCurrentPlayer(ws) == gameState.currentTurnIndex \in SeatOf(ws)

\* A message that does not push onto a full inputLog.
Message(ws, m) == (IsFireMsg(m) => LogHasRoom) /\ WebSocketMessage(ws, m)

\* Only the current-turn player sends.
TurnMessage == \E ws \in SockIds, m \in TurnMsgs : IsCurrentPlayer(ws) /\ Message(ws, m)

BotKickoff == \E i \in 1..MaxTimers : MaybeBotTurnCallback(i)

\* A bot step that does not push onto a full inputLog.
BotStep ==
  \E i \in 1..MaxTimers :
    /\ i \in DOMAIN timers
    /\ timers[i].kind = "doStep"
    /\ timers[i].stepIdx >= timers[i].walkSteps => LogHasRoom
    /\ DoStep(i)

BotPostFire == \E i \in 1..MaxTimers : PostFire(i)

TickAny == \E d \in TickChoices : Tick(d)

\* ------------------------------------------------ the turn state machine
Next ==
  \/ InitBeginSequential
  \/ InitResume
  \/ ConnectBeforeInit
  \/ Close
  \/ TurnMessage
  \/ Alarm
  \/ BotKickoff
  \/ BotStep
  \/ BotPostFire
  \/ TickAny

Spec == Init /\ [][Next]_vars

\* ------------------------------------------- a duel of two human players
DuelBody ==
  [playerOrder |-> <<Human("A"), Human("B")>>, rngSeed |-> 42, terrainId |-> 1]

DuelInitResume == \E rnd \in RandomSeeds : HandleInitResume(DuelBody, rnd)

\* Every kind of message the turn guard of line 577 stands before.
GuardedMsgs ==
  { [type |-> "input", input |-> FireInput],
    [type |-> "input", input |-> JumpInput],
    [type |-> "aim", aim |-> 1],
    [type |-> "ball_state",
     balls |-> <<[x |-> Num(10), hp |-> Num(50)], [alive |-> Bool(FALSE)]>>],
    [type |-> "retreat_start"],
    [type |-> "end_turn"] }

\* Any registered client sends, whoever's turn it is.
GuardedMessage == \E ws \in SockIds, m \in GuardedMsgs : Message(ws, m)

NextMsgs ==
  \/ InitBeginSequential
  \/ DuelInitResume
  \/ ConnectBeforeInit
  \/ GuardedMessage
  \/ Alarm
  \/ TickAny

SpecMsgs == Init /\ [][NextMsgs]_vars

\* ------------------------------------------------- the terrain log merge
\* Destruction events [x, y, radius].
Damage1 == <<100, 200, 30>>
Damage2 == <<300, 150, 45>>
MaxDamages == 2

\* Every log of at most MaxDamages events.
DamageLogs ==
  UNION {[1..n -> {Damage1, Damage2}] : n \in 0..MaxDamages}

\* terrain_damages with each log, and one whose log is not an array.
TerrainMsgs ==
  {[type |-> "terrain_damages", log |-> l] : l \in DamageLogs}
    \cup {[type |-> "terrain_damages"], [type |-> "end_turn"]}

TerrainMessage == \E ws \in SockIds, m \in TerrainMsgs : Message(ws, m)

NextTerrain ==
  \/ InitBeginSequential
  \/ DuelInitResume
  \/ ConnectBeforeInit
  \/ TerrainMessage
  \/ Alarm
  \/ TickAny

SpecTerrain == Init /\ [][NextTerrain]_vars

\* --------------------------------------------------- the position stream
\* The units pos_update names: one of seat 0, two of seat 1, and one past
\* the last unit of a duel.
PosUnits == {0, 1, 5, 6}

PosMsgs ==
  {[type |-> "pos_update", bi |-> k, x |-> Num(10), y |-> Num(20),
    vx |-> Num(1), vy |-> Num(2)] : k \in PosUnits}
    \cup {[type |-> "pos_update", bi |-> 0, x |-> Num(30)],
          [type |-> "restart", seed |-> 9], [type |-> "end_turn"]}

PosMessage == \E ws \in SockIds, m \in PosMsgs : Message(ws, m)

NextBalls ==
  \/ InitBeginSequential
  \/ DuelInitResume
  \/ ConnectBeforeInit
  \/ PosMessage
  \/ Alarm
  \/ TickAny

SpecBalls == Init /\ [][NextBalls]_vars

\* ------------------------------------------------------ overlapping /init
\* The bodies of two lobbies' requests.
RaceBodies ==
  { DuelBody,
    [playerOrder |-> <<Human("B"), Human("A")>>, rngSeed |-> 7, terrainId |-> 0] }

RaceInitResume ==
  \E body \in RaceBodies, rnd \in RandomSeeds : HandleInitResume(body, rnd)

RaceMsgs ==
  { [type |-> "input", input |-> FireInput], [type |-> "end_turn"] }

RaceMessage ==
  \E ws \in SockIds, m \in RaceMsgs : IsCurrentPlayer(ws) /\ Message(ws, m)

\* A request may start while another is suspended at its await.
NextRace ==
  \/ HandleInitBegin
  \/ RaceInitResume
  \/ ConnectBeforeInit
  \/ RaceMessage
  \/ Alarm
  \/ TickAny

SpecRace == Init /\ [][NextRace]_vars

\* ------------------------------------------------------- silent clients
\* A bot step, however long inputLog has grown.
BotStepAny == \E i \in 1..MaxTimers : DoStep(i)

\* After /init no client connects or sends; connections may drop.
NextSilent ==
  \/ InitBeginSequential
  \/ InitResume
  \/ ConnectBeforeInit
  \/ Close
  \/ Alarm
  \/ BotKickoff
  \/ BotStepAny
  \/ BotPostFire
  \/ TickAny

\* Time passes, and the platform runs a due alarm and a due setTimeout
\* callback.
Scheduling ==
  /\ WF_vars(TickAny)
  /\ WF_vars(Alarm)
  /\ WF_vars(BotKickoff)
  /\ WF_vars(BotStepAny)
  /\ WF_vars(BotPostFire)

SpecSilent == Init /\ [][NextSilent]_vars /\ Scheduling

\* ----------------------------------------------------- persistent clients
\* What the clients of a duel keep sending: neither restart nor end_turn.
LiveMsgs ==
  { [type |-> "input", input |-> FireInput],
    [type |-> "input", input |-> JumpInput],
    [type |-> "aim", aim |-> 1],
    [type |-> "retreat_start"],
    [type |-> "terrain_damages", log |-> <<Damage1>>] }

\* Any registered client sends, however long inputLog has grown.
LiveMessage == \E ws \in SockIds, m \in LiveMsgs : WebSocketMessage(ws, m)

NextLive ==
  \/ InitBeginSequential
  \/ DuelInitResume
  \/ ConnectBeforeInit
  \/ LiveMessage
  \/ Alarm
  \/ TickAny

\* Time passes, and an alarm that is due again and again is run: a message
\* that happens to arrive between the deadline and the run of alarm() does not
\* count as the alarm never having had its chance.
SpecLive == Init /\ [][NextLive]_vars /\ WF_vars(TickAny) /\ SF_vars(Alarm)

\* ------------------------------------------------------------ properties
\* The message the step handled, and its sender.
HandledType == IF handled' = <<>> THEN "" ELSE TypeOf(handled'[1].msg)
HandledFromCurrent == handled' # <<>> /\ IsCurrentPlayer(handled'[1].ws)
CurrentIsHuman == \E cur \in Current : ~cur.isBot
HandledFire == handled' # <<>> /\ IsFireMsg(handled'[1].msg)

\* C1: in an initialized session, an end_turn of the current-turn human
\* player moves currentTurnIndex to the next seat (mod the number of seats),
\* sets the phase to aiming and the turn deadline to now + 45 s, and no other
\* message of that player but a restart changes currentTurnIndex.
C1_EndTurnAdvancesByOne ==
  [][(Initialized /\ HandledFromCurrent /\ CurrentIsHuman /\ HandledType # "restart")
       => IF HandledType = "end_turn"
            THEN /\ gameState'.currentTurnIndex
                      = (gameState.currentTurnIndex + 1) % numPlayers
                 /\ gameState'.phase = "aiming"
                 /\ gameState'.turnEndTime = now + TURN_TIME_MS
            ELSE gameState'.currentTurnIndex = gameState.currentTurnIndex]_vars

\* The last of three seats has ended its turn: the turn is back at seat 0.
C1_Witness ==
  /\ numPlayers = 3
  /\ handled # <<>>
  /\ handled[1].msg.type = "end_turn"
  /\ SeatOf(handled[1].ws) = {2}
  /\ gameState.currentTurnIndex = 0
  /\ gameState.phase = "aiming"
  /\ gameState.turnEndTime = now + TURN_TIME_MS

\* C4: an /init call on a session whose playerOrder is not empty changes
\* nothing and answers alreadyInitialized; playerOrder never changes once set,
\* and rngSeed changes by a restart only.
C4_InitIdempotent ==
  [][Initialized =>
       /\ gameState'.playerOrder = gameState.playerOrder
       /\ (gameState'.rngSeed # gameState.rngSeed => HandledType = "restart")
       /\ (HandleInitBegin =>
             /\ sent' = <<Respond([ok |-> TRUE, alreadyInitialized |-> TRUE])>>
             /\ UNCHANGED <<gameState, playerIdToIndex, ballSnapshots,
                            terrainDamageLog, phaseStartTime, alarm, timers,
                            stored, sockets, connectedPlayerIds>>)]_vars

\* A second /init has been answered on a session that has moved on.
C4_Witness ==
  /\ sent = <<Respond([ok |-> TRUE, alreadyInitialized |-> TRUE])>>
  /\ gameState.currentTurnIndex = 1
  /\ gameState.phase = "projectile"
  /\ Len(gameState.inputLog) = 1

\* C9: a retreat_start of the current-turn player in the projectile phase sets
\* the phase to retreat, phaseStartTime to now and the alarm to now + 8 s; in
\* the aiming or retreat phase it changes none of the three.
C9_RetreatOnlyFromProjectile ==
  [][(Initialized /\ HandledFromCurrent /\ CurrentIsHuman
        /\ HandledType = "retreat_start")
       => IF gameState.phase = "projectile"
            THEN /\ gameState'.phase = "retreat"
                 /\ phaseStartTime' = now
                 /\ alarm' = {now + RETREAT_TIME_MS}
            ELSE /\ gameState'.phase = gameState.phase
                 /\ phaseStartTime' = phaseStartTime
                 /\ alarm' = alarm]_vars

\* A retreat_start was dropped in the retreat phase, 15 s after the phase began.
C9_Witness ==
  /\ handled # <<>>
  /\ handled[1].msg.type = "retreat_start"
  /\ IsCurrentPlayer(handled[1].ws)
  /\ gameState.phase = "retreat"
  /\ phaseStartTime = now - TickStep
  /\ alarm = {now - TickStep + RETREAT_TIME_MS}

\* C10: the phase becomes projectile from aiming only, and a firing input
\* handled in the projectile or retreat phase leaves phaseStartTime and the
\* alarm as they are.
C10_PhaseCycle ==
  [][Initialized =>
       /\ (gameState'.phase = "projectile" /\ gameState.phase # "projectile"
             => gameState.phase = "aiming")
       /\ (HandledFire /\ gameState.phase # "aiming"
             => phaseStartTime' = phaseStartTime /\ alarm' = alarm)]_vars

\* The session state a dropped message must leave alone.
SessionUnchanged ==
  UNCHANGED <<gameState, phaseStartTime, terrainDamageLog, ballSnapshots,
              alarm, timers, stored, playerIdToIndex, sockets,
              connectedPlayerIds>>

HandledFromSeated == handled' # <<>> /\ SeatOf(handled'[1].ws) # {}

\* C5: when /init calls overlap, one of them populates the session and the
\* others change nothing: once playerOrder is set it stays, and without a
\* restart rngSeed stays and inputLog does not shrink.
C5_OverlappingInitKeepsFirst ==
  [][Initialized =>
       /\ gameState'.playerOrder = gameState.playerOrder
       /\ (HandledType # "restart"
             => /\ gameState'.rngSeed = gameState.rngSeed
                /\ Len(gameState'.inputLog) >= Len(gameState.inputLog))]_vars

\* C6: a terrain_damages of the current-turn player with a log shorter than
\* the stored one leaves the stored log as it is, one with a log at least as
\* long replaces it, and one whose log is not an array changes nothing.
C6_MonotonicLengthMerge ==
  [][(Initialized /\ HandledFromCurrent /\ HandledType = "terrain_damages")
       => LET m == handled'[1].msg
          IN IF "log" \notin DOMAIN m
               THEN SessionUnchanged
             ELSE IF Len(m.log) < Len(terrainDamageLog)
               THEN SessionUnchanged
             ELSE terrainDamageLog' = m.log]_vars

\* A shorter log with another first event was refused.
C6_Witness ==
  /\ handled # <<>>
  /\ handled[1].msg.type = "terrain_damages"
  /\ IsCurrentPlayer(handled[1].ws)
  /\ "log" \in DOMAIN handled[1].msg
  /\ Len(handled[1].msg.log) = 1
  /\ Len(terrainDamageLog) = 2
  /\ terrainDamageLog[1] # handled[1].msg.log[1]

\* C7: a pos_update of a seated player for a unit k of the match (0 <= k <
\* 3 * numPlayers) is applied to ballSnapshots[k] and relayed when the
\* sender's seat is k mod numPlayers, and otherwise changes nothing and is
\* not relayed.
C7_PosUpdateOwnership ==
  [][(Initialized /\ HandledFromSeated /\ HandledType = "pos_update")
       => LET m == handled'[1].msg
              k == m.bi
          IN (k >= 0 /\ k < ballsPerTeam * numPlayers)
               => IF (k % numPlayers) \in SeatOf(handled'[1].ws)
                    THEN /\ k < Len(ballSnapshots')
                         /\ ("num" \in DOMAIN m.x
                               => ballSnapshots'[k + 1].x = m.x.num)
                         /\ sent' = <<Broadcast(sockets, m)>>
                    ELSE /\ ballSnapshots' = ballSnapshots
                         /\ sent' = <<>>]_vars

\* C8: an input, aim, ball_state, retreat_start or end_turn of a seated
\* player who is not the current-turn player changes no session state and
\* nothing is sent to anyone.
C8_OnlyCurrentPlayerActs ==
  [][(Initialized /\ HandledFromSeated /\ ~HandledFromCurrent
        /\ HandledType \in {"input", "aim", "ball_state", "retreat_start", "end_turn"})
       => SessionUnchanged /\ sent' = <<>>]_vars

\* The waiting player's end_turn was dropped while the shot was in flight.
C8_Witness ==
  /\ handled # <<>>
  /\ handled[1].msg.type = "end_turn"
  /\ SeatOf(handled[1].ws) = {1}
  /\ gameState.currentTurnIndex = 0
  /\ gameState.phase = "projectile"
  /\ sent = <<>>

\* The seats a match can have.
Seats == 0..2

\* C2: once the session is initialized and no client sends or connects any
\* more, currentTurnIndex comes to every seat again and again.
C2_SilenceReachesEverySeat ==
  \A i \in Seats :
    [](Initialized /\ i < numPlayers => <>(gameState.currentTurnIndex = i))

\* The watchdog has timed out the connected player of the last of three
\* seats: the turn is back at seat 0.
C2_Witness ==
  /\ numPlayers = 3
  /\ gameState.currentTurnIndex = 0
  /\ Len(sent) > 0
  /\ sent[1].msg.type = "force_advance"
  /\ sent[1].msg.reason = "turn_timeout"

\* C3: from every state of an initialized session, whatever the clients keep
\* sending (but a restart), the turn leaves the seat it is at.
C3_TurnAlwaysAdvances ==
  \A i \in Seats :
    [](Initialized /\ gameState.currentTurnIndex = i
         => <>(gameState.currentTurnIndex # i))

\* The current-turn human player's message is a non-firing input or an aim.
HandledNonCommitting ==
  /\ handled' # <<>>
  /\ \/ HandledType = "aim" /\ "aim" \in DOMAIN handled'[1].msg
     \/ /\ HandledType = "input"
        /\ "input" \in DOMAIN handled'[1].msg
        /\ "Fire" \notin Range(handled'[1].msg.input.tokens)

\* The relay of an input or aim message: the payload and the turn index.
RelayOf(m) ==
  IF m.type = "aim"
    THEN [type |-> "aim", aim |-> m.aim, turnIndex |-> gameState.currentTurnIndex]
    ELSE [type |-> "input", input |-> m.input, turnIndex |-> gameState.currentTurnIndex]

\* C11: a non-firing input or an aim of the current-turn human player is
\* relayed to every registered websocket and changes no session state:
\* inputLog, phase, currentTurnIndex, the deadlines and the alarm stay.
C11_NonCommittingOnlyRelayed ==
  [][(Initialized /\ HandledFromCurrent /\ CurrentIsHuman /\ HandledNonCommitting)
       => /\ SessionUnchanged
          /\ sent' = <<[to |-> Range(sockets), msg |-> RelayOf(handled'[1].msg)]>>]_vars

\* A jump was relayed while the shot was in flight: the log holds the one fire.
C11_Witness ==
  /\ handled # <<>>
  /\ handled[1].msg = [type |-> "input", input |-> JumpInput]
  /\ IsCurrentPlayer(handled[1].ws)
  /\ gameState.phase = "projectile"
  /\ Len(gameState.inputLog) = 1
  /\ Len(sent) = 1
  /\ sent[1].to # {}
  /\ sent[1].msg.type = "input"

\* ------------------------------------------------ a bot and a human player
BotBody ==
  [playerOrder |-> <<Bot("X"), Human("A")>>, rngSeed |-> 7, terrainId |-> 0]

BotInitResume == \E rnd \in RandomSeeds : HandleInitResume(BotBody, rnd)

\* What the human sends, in its own turn or in the bot's.
BotsMsgs ==
  { [type |-> "input", input |-> FireInput],
    [type |-> "end_turn"],
    [type |-> "terrain_damages", log |-> <<Damage1>>],
    [type |-> "restart", seed |-> 9] }

BotsMessage == \E ws \in SockIds, m \in BotsMsgs : Message(ws, m)

NextBots ==
  \/ InitBeginSequential
  \/ BotInitResume
  \/ ConnectBeforeInit
  \/ BotsMessage
  \/ Alarm
  \/ BotKickoff
  \/ BotStep
  \/ BotPostFire
  \/ TickAny

SpecBots == Init /\ [][NextBots]_vars

\* C12: a restart with a numeric seed from any seated, connected player, in
\* any phase and whoever's turn it is (a bot's too), sets currentTurnIndex to
\* 0, the phase to aiming, rngSeed to the seed, empties inputLog and
\* terrainDamageLog, sets the turn deadline to now + 45 s and re-arms the
\* alarm; playerOrder and the seat table stay, and the restart and the new
\* state are sent to every registered websocket.
C12_RestartResets ==
  [][(Initialized /\ HandledFromSeated /\ HandledType = "restart"
        /\ "seed" \in DOMAIN handled'[1].msg)
       => LET seed == handled'[1].msg.seed
          IN /\ gameState' = [playerOrder |-> gameState.playerOrder,
                              inputLog |-> <<>>, currentTurnIndex |-> 0,
                              turnEndTime |-> now + TURN_TIME_MS,
                              phase |-> "aiming", rngSeed |-> seed,
                              terrainId |-> gameState.terrainId]
             /\ terrainDamageLog' = <<>>
             /\ alarm' = {now + TURN_TIME_MS + WATCHDOG_GRACE_MS}
             /\ playerIdToIndex' = playerIdToIndex
             /\ sent' = << [to |-> Range(sockets),
                            msg |-> [type |-> "restart", seed |-> seed]],
                           [to |-> Range(sockets),
                            msg |-> [type |-> "state", state |-> gameState',
                                     turnTimeRemainingMs |-> TURN_TIME_MS]] >>]_vars

\* The human at seat 1 restarted the match in the turn of the bot at seat 0,
\* after the bot had fired: the callback that follows its fire is pending.
C12_Witness ==
  /\ handled # <<>>
  /\ handled[1].msg = [type |-> "restart", seed |-> 9]
  /\ SeatOf(handled[1].ws) = {1}
  /\ gameState.playerOrder[1].isBot
  /\ gameState.currentTurnIndex = 0
  /\ gameState.rngSeed = 9
  /\ gameState.inputLog = <<>>
  /\ \E i \in DOMAIN timers : timers[i].kind = "postFire"

\* ------------------------------------------------ the watchdog, at any time

\* A client connects, before or after /init, for the first time or again.
Connect == \E p \in PlayerIds : HandleWebSocket(p)

WatchMsgs ==
  { [type |-> "input", input |-> FireInput],
    [type |-> "retreat_start"],
    [type |-> "end_turn"] }

WatchMessage ==
  \E ws \in SockIds, m \in WatchMsgs : IsCurrentPlayer(ws) /\ Message(ws, m)

\* The platform delivers an alarm at least once: the handler may run a second
\* time for one deadline, or for a deadline that the session has moved past.
\* Here it may run at any moment (while there is room for the callback a bot's
\* turn defers).
AlarmAnyTime == Len(timers) < MaxTimers /\ AlarmHandler

\* A duel of two humans who come and go.
NextWatch ==
  \/ InitBeginSequential
  \/ DuelInitResume
  \/ Connect
  \/ Close
  \/ WatchMessage
  \/ AlarmAnyTime
  \/ TickAny

SpecWatch == Init /\ [][NextWatch]_vars

\* A bot and a human who stays.
NextSpurious ==
  \/ InitBeginSequential
  \/ BotInitResume
  \/ ConnectBeforeInit
  \/ WatchMessage
  \/ AlarmAnyTime
  \/ BotKickoff
  \/ BotStep
  \/ BotPostFire
  \/ TickAny

SpecSpurious == Init /\ [][NextSpurious]_vars

\* The reason of the force_advance the step announces first; "" if it
\* announces none.
ForceReason ==
  IF sent' # <<>> /\ sent'[1].msg.type = "force_advance"
    THEN sent'[1].msg.reason ELSE ""

\* The current-turn player has a registered websocket that is open.
ActiveOnline ==
  /\ gameState.currentTurnIndex < numPlayers
  /\ LET pid == gameState.playerOrder[gameState.currentTurnIndex + 1].playerId
     IN pid \in DOMAIN sockets /\ sockets[pid] \in DOMAIN wsOwner

\* C13: the watchdog announces projectile_timeout only in the projectile phase
\* at or after phaseStartTime + 20 s, retreat_timeout only in the retreat phase
\* at or after phaseStartTime + 8 s, player_disconnected only in the aiming
\* phase when the current-turn player has no live connection, turn_timeout
\* only in the aiming phase when that player is online at or after the turn
\* deadline + 5 s; the announcement is followed by the advance to the next
\* seat, and the watchdog advances the turn with an announcement only.
C13_WatchdogGuards ==
  [][Initialized =>
       /\ ForceReason = "projectile_timeout"
            => gameState.phase = "projectile"
                 /\ now >= phaseStartTime + PROJECTILE_TIMEOUT_MS
       /\ ForceReason = "retreat_timeout"
            => gameState.phase = "retreat" /\ now >= phaseStartTime + RETREAT_TIME_MS
       /\ ForceReason = "player_disconnected"
            => gameState.phase = "aiming" /\ ~ActiveOnline
       /\ ForceReason = "turn_timeout"
            => gameState.phase = "aiming" /\ ActiveOnline
                 /\ now >= gameState.turnEndTime + WATCHDOG_GRACE_MS
       /\ ForceReason # ""
            => /\ Len(sent') >= 2
               /\ sent'[2].msg.type = "turn_advanced"
               /\ gameState'.currentTurnIndex
                    = (gameState.currentTurnIndex + 1) % numPlayers
       /\ (AlarmHandler /\ gameState'.currentTurnIndex # gameState.currentTurnIndex)
            => ForceReason # ""]_vars

\* The watchdog timed out the player of seat 0, who was online: it announced
\* turn_timeout, then the advance to seat 1, and armed the alarm for the new
\* turn.
C13_Witness ==
  /\ Len(sent) >= 2
  /\ sent[1].msg = [type |-> "force_advance", reason |-> "turn_timeout"]
  /\ sent[1].to # {}
  /\ sent[2].msg.type = "turn_advanced"
  /\ "A" \in DOMAIN sockets
  /\ gameState.currentTurnIndex = 1
  /\ gameState.phase = "aiming"
  /\ alarm = {now + TURN_TIME_MS + WATCHDOG_GRACE_MS}

\* The deadline of the phase the session is in.
PhaseDeadline ==
  IF gameState.phase = "projectile" THEN phaseStartTime + PROJECTILE_TIMEOUT_MS
  ELSE IF gameState.phase = "retreat" THEN phaseStartTime + RETREAT_TIME_MS
  ELSE gameState.turnEndTime + WATCHDOG_GRACE_MS

CurrentIsBot == \E cur \in Current : cur.isBot

\* C14: a run of the alarm handler before the deadline of the current phase,
\* the current seat being a bot or a human who is online, changes neither
\* phase, currentTurnIndex, the turn deadline, phaseStartTime, the logs nor
\* the snapshots, sends nothing, and arms the alarm at the deadline of the
\* current phase (so that running it again changes nothing more).
C14_EarlyAlarmIsIdle ==
  [][(Initialized /\ AlarmHandler /\ now < PhaseDeadline
        /\ (CurrentIsBot \/ ActiveOnline))
       => /\ UNCHANGED <<gameState, phaseStartTime, terrainDamageLog, ballSnapshots>>
          /\ sent' = <<>>
          /\ alarm' = {PhaseDeadline}]_vars

\* ------------------------------------------------- clients that come and go
\* What arrives on an open websocket, registered or superseded.
ConnMsgs ==
  { [type |-> "input", input |-> FireInput],
    [type |-> "end_turn"],
    [type |-> "terrain_damages", log |-> <<Damage1>>] }

ConnMessage == \E ws \in SockIds, m \in ConnMsgs : Message(ws, m)

NextConn ==
  \/ InitBeginSequential
  \/ DuelInitResume
  \/ Connect
  \/ Close
  \/ ConnMessage
  \/ Alarm
  \/ TickAny

SpecConn == Init /\ [][NextConn]_vars

\* The step closes the registered websocket of the current-turn player in the
\* aiming phase.
ActivePlayerCloses ==
  \E ws \in SockIds :
    /\ WebSocketClose(ws)
    /\ IsCurrentPlayer(ws)
    /\ gameState.phase = "aiming"

\* The playerId of the current seat.
ActivePid == gameState.playerOrder[gameState.currentTurnIndex + 1].playerId

\* C15: when the websocket of the current-turn player closes in the aiming
\* phase, the player is marked offline, player_disconnected goes to the
\* remaining websockets and the alarm is set to now + 12 s, which is no later
\* than the ordinary timeout at the turn deadline + 5 s; and a run of the
\* alarm handler that finds the current-turn player offline in the aiming
\* phase advances the turn with the reason player_disconnected.
C15_ActiveDisconnect ==
  [][Initialized =>
       /\ ActivePlayerCloses
            => /\ ActivePid \notin connectedPlayerIds'
               /\ ActivePid \notin DOMAIN sockets'
               /\ sent' = <<[to |-> Range(sockets'),
                             msg |-> [type |-> "player_disconnected",
                                      playerIndex |-> gameState.currentTurnIndex]]>>
               /\ alarm' = {now + DISCONNECT_ADVANCE_MS}
               /\ now + DISCONNECT_ADVANCE_MS
                    <= gameState.turnEndTime + WATCHDOG_GRACE_MS
       /\ (Alarm /\ gameState.phase = "aiming" /\ ~ActiveOnline)
            => /\ ForceReason = "player_disconnected"
               /\ gameState'.currentTurnIndex
                    = (gameState.currentTurnIndex + 1) % numPlayers]_vars

\* Websocket ws is open but no longer the registered one of any playerId: a
\* later connection of its playerId has taken its place.
Superseded(ws) ==
  /\ ws \in DOMAIN wsOwner
  /\ \A p \in DOMAIN sockets : sockets[p] # ws

\* C16: no websocket is registered under two playerIds (and sockets holds one
\* websocket per playerId); a new connection of a playerId becomes its
\* registered websocket; a message that arrives on a superseded websocket
\* changes nothing and is answered by nothing; and the close of a superseded
\* websocket leaves the player online, broadcasts nothing and leaves the alarm.
C16_ReconnectReplaces ==
  [][/\ \A p, q \in DOMAIN sockets' : sockets'[p] = sockets'[q] => p = q
     /\ \A p \in PlayerIds, ws \in SockIds :
          (HandleWebSocketOn(p, ws) /\ p \in DOMAIN sockets)
            => /\ sockets'[p] = ws
               /\ sockets[p] \in DOMAIN wsOwner'
               /\ \A q \in DOMAIN sockets' : sockets'[q] # sockets[p]
               /\ p \in connectedPlayerIds'
     /\ (handled' # <<>> /\ Superseded(handled'[1].ws))
          => SessionUnchanged /\ sent' = <<>>
     /\ \A ws \in SockIds :
          (WebSocketClose(ws) /\ Superseded(ws))
            => /\ UNCHANGED <<sockets, connectedPlayerIds, alarm, gameState>>
               /\ sent' = <<>>]_vars

\* The current-turn player reconnected, and an end_turn that arrived on the
\* websocket of its earlier connection was ignored.
C16_Witness ==
  /\ Initialized
  /\ handled # <<>>
  /\ handled[1].msg.type = "end_turn"
  /\ Superseded(handled[1].ws)
  /\ wsOwner[handled[1].ws] = ActivePid
  /\ ActiveOnline
  /\ gameState.currentTurnIndex = 0
  /\ sent = <<>>

\* What the step sent to websocket ws, in the order of sending.
SentTo(ws) ==
  LET Reaches(e) == ws \in e.to
  IN SelectSeq(sent', Reaches)

\* C17: when a seated player connects or reconnects, the new websocket is
\* sent identity (the seat index and rngSeed), then terrain_sync with the whole
\* terrainDamageLog (also when it is empty), then game_resync with the phase,
\* currentTurnIndex and the time that remains of the turn, and after these
\* the state broadcast; nothing else, and nothing before.
C17_ConnectSequence ==
  [][\A p \in PlayerIds :
       (HandleWebSocket(p) /\ p \in DOMAIN playerIdToIndex)
         => LET got == SentTo(sockets'[p])
            IN /\ Len(got) = 4
               /\ got[1].msg = [type |-> "identity",
                                myPlayerIndex |-> playerIdToIndex[p],
                                playerId |-> p, rngSeed |-> gameState.rngSeed]
               /\ got[2].msg = [type |-> "terrain_sync", log |-> terrainDamageLog]
               /\ got[3].msg.type = "game_resync"
               /\ got[3].msg.phase = gameState.phase
               /\ got[3].msg.currentTurnIndex = gameState.currentTurnIndex
               /\ got[3].msg.turnTimeRemainingMs = Max(0, gameState.turnEndTime - now)
               /\ got[4].msg.type = "state"
               /\ got[4].msg.state = gameState]_vars

\* A player connected in the second turn of a match whose terrain log is
\* empty: the empty terrain_sync came second, the game_resync third.
C17_Witness ==
  /\ handled = <<>>
  /\ Len(sent) = 5
  /\ sent[1].msg.type = "identity"
  /\ sent[2].msg = [type |-> "terrain_sync", log |-> <<>>]
  /\ sent[3].msg.type = "game_resync"
  /\ sent[3].msg.currentTurnIndex = 1
  /\ sent[5].msg.type = "state"
  /\ sent[1].to = sent[2].to
  /\ sent[2].to = sent[3].to

\* C18: the game_resync of a (re)connect carries the ball snapshots exactly
\* when inputLog is not empty or currentTurnIndex is above 0; otherwise it
\* has no balls field.
C18_ResyncBallsIffProgressed ==
  [][\A p \in PlayerIds :
       (HandleWebSocket(p) /\ p \in DOMAIN playerIdToIndex)
         => LET got == SentTo(sockets'[p])
                progressed == gameState.inputLog # <<>>
                                \/ gameState.currentTurnIndex > 0
            IN /\ Len(got) >= 3
               /\ got[3].msg.type = "game_resync"
               /\ ("balls" \in DOMAIN got[3].msg) <=> progressed
               /\ progressed => got[3].msg.balls = ballSnapshots]_vars

\* A player connected to a match in its first turn after the first shot: the
\* game_resync carries the six snapshots of the duel.
C18_Witness ==
  /\ handled = <<>>
  /\ Len(sent) >= 3
  /\ sent[3].msg.type = "game_resync"
  /\ sent[3].msg.currentTurnIndex = 0
  /\ "balls" \in DOMAIN sent[3].msg
  /\ Len(sent[3].msg.balls) = 2 * ballsPerTeam
  /\ Len(gameState.inputLog) = 1

\* C19: a deferred callback of a bot's action chain acts in the turn its
\* chain was scheduled in, and is idle otherwise.  In a session where only
\* fires, turn advances and restarts change the state a plan is made from,
\* this means: a doStep that relays a walk or fires does so in the aiming
\* phase of its bot, the fire it appends being the plan of the present state;
\* and the callback that follows a fire advances the turn only from the
\* projectile phase its fire began, with that fire the last entry of inputLog.
C19_StaleCallbacksAreIdle ==
  [][Initialized =>
       /\ (BotStepAny /\ sent' # <<>>)
            => /\ gameState.phase = "aiming"
               /\ IsBotTurn(gameState)
               /\ gameState'.phase = "projectile"
                    => sent'[1].msg.input
                         = GetBotActions(gameState, ballSnapshots).fireInput
       /\ (BotPostFire /\ sent' # <<>>)
            => /\ gameState.phase = "projectile"
               /\ IsBotTurn(gameState)
               /\ gameState.inputLog # <<>>
               /\ gameState.inputLog[Len(gameState.inputLog)].tokens
                    = <<"Fire", "Bazooka">>]_vars

\* The fire a bot plans on a session of the given playerOrder, seed, turn
\* index and inputLog length whose snapshots are as /init left them: a
\* function of these four and of nothing else.
PlannedFire(order, seed, idx, len) ==
  GetBotActions([playerOrder |-> order, inputLog |-> [i \in 1..len |-> FireInput],
                 currentTurnIndex |-> idx, turnEndTime |-> now + TURN_TIME_MS,
                 phase |-> "aiming", rngSeed |-> seed, terrainId |-> 0],
                [i \in 1..(Len(order) * ballsPerTeam) |-> BlankBall]).fireInput

\* C20: with no human input, the fire a bot appends to inputLog is determined
\* by playerOrder, rngSeed, currentTurnIndex and the length of inputLog: two
\* runs that agree on these append the same payloads in the same order.
C20_BotDeterminism ==
  [][(Initialized /\ BotStepAny /\ gameState'.phase = "projectile"
        /\ gameState.phase = "aiming")
       => LET fire == PlannedFire(gameState.playerOrder, gameState.rngSeed,
                                  gameState.currentTurnIndex,
                                  Len(gameState.inputLog))
          IN /\ sent'[1].msg = [type |-> "input", input |-> fire,
                                turnIndex |-> gameState.currentTurnIndex]
             /\ gameState'.inputLog = PushLog(gameState.inputLog, fire)]_vars

\* The bot has fired in its second turn: inputLog holds its two fires, which
\* differ (the draw depends on the length of the log).
C20_Witness ==
  /\ Initialized
  /\ gameState.phase = "projectile"
  /\ IsBotTurn(gameState)
  /\ Len(gameState.inputLog) = 2
  /\ gameState.inputLog[1] # gameState.inputLog[2]
  /\ \E i \in DOMAIN timers : timers[i].kind = "postFire"
  /\ Len(sent) = 2
  /\ sent[1].msg.type = "input"
  /\ sent[1].msg.input = gameState.inputLog[2]

\* The phases of a turn.
Phases == {"aiming", "projectile", "retreat"}

\* C21: in every state of an initialized session currentTurnIndex is a seat
\* of playerOrder (0 <= currentTurnIndex < the number of seats) and the phase
\* is aiming, projectile or retreat.
C21_TurnIndexInRange ==
  Initialized =>
    /\ gameState.currentTurnIndex >= 0
    /\ gameState.currentTurnIndex < Len(gameState.playerOrder)
    /\ gameState.phase \in Phases

\* The bot of seat 0 and the human of seat 1 have each fired and the human's
\* turn has ended: the advance from the last seat came back to seat 0.
C21_Witness ==
  /\ numPlayers = 2
  /\ Len(gameState.inputLog) = 2
  /\ gameState.currentTurnIndex = 0
  /\ gameState.phase = "aiming"
  /\ IsBotTurn(gameState)
  /\ \E i \in DOMAIN sent : sent[i].msg.type = "turn_advanced"

IsPrefix(s, t) == Len(s) <= Len(t) /\ SubSeq(t, 1, Len(s)) = s

C23_TerrainLogAppendOnly ==
  [][(HandledType = "terrain_damages" /\ terrainDamageLog' # terrainDamageLog)
       => IsPrefix(terrainDamageLog, terrainDamageLog')]_vars

C23_TerrainLogNeverShorter ==
  [][(HandledType = "terrain_damages" /\ terrainDamageLog' # terrainDamageLog)
       => /\ "log" \in DOMAIN handled'[1].msg
          /\ terrainDamageLog' = handled'[1].msg.log
          /\ Len(terrainDamageLog') >= Len(terrainDamageLog)]_vars

\* The current-turn player of seat 1 had a one-event candidate accepted and
\* persisted.
C23_Witness ==
  /\ handled # <<>>
  /\ handled[1].msg.type = "terrain_damages"
  /\ terrainDamageLog = <<Damage2>>
  /\ stored # <<>>
  /\ stored[1].terrainDamageLog = <<Damage2>>
  /\ IsCurrentPlayer(handled[1].ws)
  /\ gameState.currentTurnIndex = 1

C25_StoredEqualsMemory ==
  Initialized =>
    stored = <<PersistedGameData(gameState, terrainDamageLog, ballSnapshots,
                                 playerIdToIndex, phaseStartTime)>>

\* --------------------------------------------------- a storage that fails
\* The storage starts or stops rejecting the put of the record (a record
\* over the size the platform stores is rejected at every put).
StorageFlips ==
  /\ putFails' = ~putFails
  /\ handled' = <<>>
  /\ sent' = <<>>
  /\ UNCHANGED <<gameState, sockets, playerIdToIndex, connectedPlayerIds,
                 terrainDamageLog, ballSnapshots, phaseStartTime, alarm,
                 timers, stored, wsOwner, initAwaiting>>

\* A duel of two humans over a storage that may reject writes.
NextFaulty ==
  \/ InitBeginSequential
  \/ DuelInitResume
  \/ ConnectBeforeInit
  \/ WatchMessage
  \/ Alarm
  \/ TickAny
  \/ StorageFlips

SpecFaulty == Init /\ [][NextFaulty]_vars

\* C26: while the storage rejects the put, a handler leaves the stored record
\* as it was and does to the session what it does otherwise: a fire of the
\* current-turn player in the aiming phase is appended to inputLog, starts
\* the projectile phase, re-arms the alarm and is broadcast with the state; a
\* retreat_start in the projectile phase starts the retreat phase as the
\* in-memory phase says; an end_turn and a due alarm advance the turn with
\* its broadcasts.
C26_FailedWriteIsSwallowed ==
  [][(putFails /\ putFails' /\ Initialized) =>
       /\ (handled' # <<>> \/ AlarmHandler) => stored' = stored
       /\ (HandledFromCurrent /\ HandledFire) =>
             /\ gameState'.inputLog = Append(gameState.inputLog, handled'[1].msg.input)
             /\ gameState'.phase = "projectile"
             /\ phaseStartTime' = now
             /\ alarm' = {now + PROJECTILE_TIMEOUT_MS}
             /\ Len(sent') = 2
             /\ sent'[1].msg.type = "input"
             /\ sent'[1].msg.input = handled'[1].msg.input
             /\ sent'[2].msg.type = "state"
             /\ sent'[2].msg.state = gameState'
       /\ (HandledFromCurrent /\ HandledType = "retreat_start"
             /\ gameState.phase = "projectile") =>
             /\ gameState'.phase = "retreat"
             /\ alarm' = {now + RETREAT_TIME_MS}
       /\ (HandledFromCurrent /\ HandledType = "end_turn") =>
             /\ gameState'.currentTurnIndex =
                  (gameState.currentTurnIndex + 1) % numPlayers
             /\ alarm' = {now + TURN_TIME_MS + WATCHDOG_GRACE_MS}
             /\ \E i \in DOMAIN sent' : sent'[i].msg.type = "turn_advanced"
       /\ (AlarmHandler /\ \E i \in DOMAIN sent' : sent'[i].msg.type = "force_advance") =>
             /\ gameState'.currentTurnIndex =
                  (gameState.currentTurnIndex + 1) % numPlayers
             /\ alarm' = {now + TURN_TIME_MS + WATCHDOG_GRACE_MS}]_vars

\* The put has been rejected since before the fire: the record still says
\* aiming with an empty inputLog, and the retreat_start that followed was
\* taken on the in-memory projectile phase.
C26_Witness ==
  /\ putFails
  /\ handled # <<>>
  /\ handled[1].msg.type = "retreat_start"
  /\ gameState.phase = "retreat"
  /\ Len(gameState.inputLog) = 1
  /\ stored # <<>>
  /\ stored[1].gameState.phase = "aiming"
  /\ stored[1].gameState.inputLog = <<>>
  /\ alarm = {now + RETREAT_TIME_MS}

\* The duel of the scenario: A at seat 0, B at seat 1, seed 42, both online.
DuelOnline ==
  /\ gameState.playerOrder = DuelBody.playerOrder
  /\ gameState.rngSeed = 42
  /\ connectedPlayerIds = {"A", "B"}

HandledFrom(pid) == handled' # <<>> /\ SenderOf(handled'[1].ws) = {pid}

\* C27: in the duel [A, B] with seed 42 and both players online: /init
\* leaves phase aiming and index 0; A's non-fire input changes neither index
\* nor phase and is relayed; A's fire on the empty log makes the log one long
\* and the phase projectile; A's retreat_start then makes the phase retreat;
\* A's end_turn makes index 1 and phase aiming, broadcasts turn_advanced and
\* state and arms the alarm 45 s + 5 s ahead; while B then sends nothing the
\* index stays 1 until the alarm runs at turnEndTime + 5 s or later, and that
\* run broadcasts force_advance with reason turn_timeout and sets index 0.
C27_DuelScenario ==
  [][/\ (~Initialized /\ gameState'.playerOrder = DuelBody.playerOrder) =>
          /\ gameState'.phase = "aiming"
          /\ gameState'.currentTurnIndex = 0
          /\ gameState'.rngSeed = 42
     /\ (DuelOnline /\ gameState.currentTurnIndex = 0 /\ HandledFrom("A")) =>
          LET m == handled'[1].msg
          IN /\ (m = [type |-> "input", input |-> JumpInput]) =>
                  /\ gameState' = gameState
                  /\ sent' = <<Broadcast(sockets, [type |-> "input",
                                                   input |-> JumpInput,
                                                   turnIndex |-> 0])>>
             /\ (IsFireMsg(m) /\ gameState.inputLog = <<>>
                   /\ gameState.phase = "aiming") =>
                  /\ Len(gameState'.inputLog) = 1
                  /\ gameState'.phase = "projectile"
                  /\ gameState'.currentTurnIndex = 0
             /\ (m.type = "retreat_start" /\ gameState.phase = "projectile") =>
                  /\ gameState'.phase = "retreat"
                  /\ gameState'.currentTurnIndex = 0
             /\ (m.type = "end_turn") =>
                  /\ gameState'.currentTurnIndex = 1
                  /\ gameState'.phase = "aiming"
                  /\ gameState'.turnEndTime = now + TURN_TIME_MS
                  /\ alarm' = {now + TURN_TIME_MS + WATCHDOG_GRACE_MS}
                  /\ Len(sent') = 2
                  /\ sent'[1].msg.type = "turn_advanced"
                  /\ sent'[1].msg.turnIndex = 1
                  /\ sent'[2].msg.type = "state"
                  /\ sent'[2].msg.state = gameState'
                  /\ sent'[1].to = Range(sockets)
                  /\ sent'[2].to = Range(sockets)
     /\ (DuelOnline /\ gameState.currentTurnIndex = 1
           /\ gameState.phase = "aiming" /\ ~HandledFrom("B")) =>
          IF AlarmHandler /\ now >= gameState.turnEndTime + WATCHDOG_GRACE_MS
            THEN /\ sent'[1].msg = [type |-> "force_advance",
                                    reason |-> "turn_timeout"]
                 /\ sent'[1].to = Range(sockets)
                 /\ gameState'.currentTurnIndex = 0
                 /\ gameState'.phase = "aiming"
            ELSE /\ gameState'.currentTurnIndex = 1
                 /\ \A i \in DOMAIN sent' : sent'[i].msg.type # "force_advance"]_vars

\* The scenario has run to its end: A fired once, the turn went to B, and
\* B's turn timed out with both players online.
C27_Witness ==
  /\ DuelOnline
  /\ gameState.inputLog = <<FireInput>>
  /\ gameState.currentTurnIndex = 0
  /\ gameState.phase = "aiming"
  /\ Len(sent) = 3
  /\ sent[1].msg = [type |-> "force_advance", reason |-> "turn_timeout"]
  /\ sent[2].msg.type = "turn_advanced"
  /\ sent[2].msg.turnIndex = 0

\* The places of the turn_advanced notices among what the step sent.
TurnAdvancedAt == {i \in DOMAIN sent' : sent'[i].msg.type = "turn_advanced"}

\* C28: a step of an initialized session sends at most one turn_advanced;
\* it sends one whenever it changes currentTurnIndex other than by a restart;
\* the notice goes to every registered websocket, carries the index after
\* the step (the index before plus one, mod the number of seats) and the
\* terrainDamageLog and ballSnapshots of that moment, and is followed at once
\* by a state message with the new state to the same websockets.
C28_AdvanceIsAnnounced ==
  [][Initialized =>
       /\ Cardinality(TurnAdvancedAt) <= 1
       /\ (gameState'.currentTurnIndex # gameState.currentTurnIndex
             /\ HandledType # "restart") => TurnAdvancedAt # {}
       /\ \A i \in TurnAdvancedAt :
            /\ sent'[i].to = Range(sockets)
            /\ sent'[i].msg = [type |-> "turn_advanced",
                               turnIndex |-> gameState'.currentTurnIndex,
                               balls |-> ballSnapshots',
                               terrainLog |-> terrainDamageLog']
            /\ gameState'.currentTurnIndex =
                 (gameState.currentTurnIndex + 1) % numPlayers
            /\ i + 1 \in DOMAIN sent'
            /\ sent'[i + 1].to = Range(sockets)
            /\ sent'[i + 1].msg.type = "state"
            /\ sent'[i + 1].msg.state = gameState']_vars

\* A bot's own advance after its shot told the connected human of the new
\* index and of the destruction recorded so far.
C28_Witness ==
  /\ handled = <<>>
  /\ sent # <<>>
  /\ sent[1].msg.type = "turn_advanced"
  /\ sent[1].msg.turnIndex = 1
  /\ sent[1].msg.terrainLog = <<Damage1>>
  /\ sent[1].to # {}
  /\ gameState.currentTurnIndex = 1

\* ------------------------------------------------- partial snapshot updates
\* Updates that give some fields, some of them with the wrong type; a
\* ball_state that lists two units; a restart, after which no unit is left.
SnapMsgs ==
  { [type |-> "pos_update", bi |-> 0, x |-> Num(30)],
    [type |-> "pos_update", bi |-> 0, x |-> Str("left"), vy |-> Num(9)],
    [type |-> "pos_update", bi |-> 1, y |-> Num(20), hp |-> Num(1)],
    [type |-> "ball_state",
     balls |-> <<[x |-> Num(40), hp |-> Num(50)],
                 [alive |-> Bool(FALSE), hp |-> Str("full")]>>],
    [type |-> "restart", seed |-> 9],
    [type |-> "end_turn"] }

SnapMessage == \E ws \in SockIds, m \in SnapMsgs : Message(ws, m)

NextSnap ==
  \/ InitBeginSequential
  \/ DuelInitResume
  \/ ConnectBeforeInit
  \/ SnapMessage
  \/ Alarm
  \/ TickAny

SpecSnap == Init /\ [][NextSnap]_vars

\* The value a snapshot field has after an update b: the field of b when b
\* has it as a number (as a boolean for alive), and the old value otherwise.
FieldAfter(old, b, f) ==
  IF f \in DOMAIN b /\ (IF f = "alive" THEN "bool" \in DOMAIN b[f]
                                       ELSE "num" \in DOMAIN b[f])
    THEN (IF f = "alive" THEN b[f].bool ELSE b[f].num)
    ELSE old[f]

\* C29: an accepted (relayed) pos_update for unit k writes those of x, y,
\* vx, vy that the message has as numbers and leaves the other fields of
\* unit k, its hp and alive, and every other unit as they were; a ball_state
\* of the current-turn player writes, for each listed index below the length
\* of ballSnapshots, the fields the entry has with the right type and leaves
\* the other fields and the unlisted units as they were; neither changes the
\* length of ballSnapshots.
C29_PartialSnapshotUpdates ==
  [][/\ (Initialized /\ HandledType = "pos_update" /\ sent' # <<>>) =>
          LET m == handled'[1].msg
              k == m.bi + 1
          IN /\ Len(ballSnapshots') = Len(ballSnapshots)
             /\ k \in DOMAIN ballSnapshots
             /\ \A j \in DOMAIN ballSnapshots \ {k} :
                  ballSnapshots'[j] = ballSnapshots[j]
             /\ ballSnapshots'[k].hp = ballSnapshots[k].hp
             /\ ballSnapshots'[k].alive = ballSnapshots[k].alive
             /\ \A f \in {"x", "y", "vx", "vy"} :
                  ballSnapshots'[k][f] = FieldAfter(ballSnapshots[k], m, f)
     /\ (Initialized /\ HandledFromCurrent /\ HandledType = "ball_state"
           /\ "balls" \in DOMAIN handled'[1].msg) =>
          LET bs == handled'[1].msg.balls
          IN /\ Len(ballSnapshots') = Len(ballSnapshots)
             /\ \A i \in DOMAIN ballSnapshots :
                  IF i \in DOMAIN bs
                    THEN \A f \in {"x", "y", "vx", "vy", "hp", "alive"} :
                           ballSnapshots'[i][f] =
                             FieldAfter(ballSnapshots[i], bs[i], f)
                    ELSE ballSnapshots'[i] = ballSnapshots[i]]_vars

\* Unit 0 got hp 50 from a ball_state and x 30 from a pos_update, and the
\* pos_update just handled, with a text for x and 9 for vy, wrote vy alone.
C29_Witness ==
  /\ handled # <<>>
  /\ handled[1].msg = [type |-> "pos_update", bi |-> 0,
                       x |-> Str("left"), vy |-> Num(9)]
  /\ sent # <<>>
  /\ Len(ballSnapshots) = 2 * ballsPerTeam
  /\ ballSnapshots[1] = [x |-> 30, y |-> 0, vx |-> 0, vy |-> 9,
                         hp |-> 50, alive |-> TRUE]
  /\ ballSnapshots[2].alive = FALSE
  /\ ballSnapshots[2].hp = 100

\* The end of the phase the session is in: the turn deadline in the aiming
\* phase, 20 s after its start in projectile, 8 s after its start in retreat.
PhaseEnd ==
  IF gameState.phase = "projectile" THEN phaseStartTime + PROJECTILE_TIMEOUT_MS
  ELSE IF gameState.phase = "retreat" THEN phaseStartTime + RETREAT_TIME_MS
  ELSE gameState.turnEndTime

\* C30 (as stated): the time figure of the game_resync of a (re)connect is
\* max(0, D - now), D being the end of the phase current at connect time.
C30_ResyncTimeIsPhaseTime ==
  [][\A p \in PlayerIds :
       (HandleWebSocket(p) /\ p \in DOMAIN playerIdToIndex)
         => LET got == SentTo(sockets'[p])
            IN /\ Len(got) >= 3
               /\ got[3].msg.type = "game_resync"
               /\ got[3].msg.turnTimeRemainingMs =
                    (IF PhaseEnd > now THEN PhaseEnd - now ELSE 0)]_vars

\* C30 (amended): the time figure of the game_resync of a (re)connect is
\* never negative and is max(0, turnEndTime - now), the time left to the
\* turn deadline, in every phase.
C30_ResyncTimeIsTurnTime ==
  [][\A p \in PlayerIds :
       (HandleWebSocket(p) /\ p \in DOMAIN playerIdToIndex)
         => LET got == SentTo(sockets'[p])
            IN /\ Len(got) >= 3
               /\ got[3].msg.type = "game_resync"
               /\ got[3].msg.phase = gameState.phase
               /\ got[3].msg.turnTimeRemainingMs >= 0
               /\ got[3].msg.turnTimeRemainingMs =
                    (IF gameState.turnEndTime > now
                       THEN gameState.turnEndTime - now ELSE 0)]_vars

\* A player connected in a projectile phase whose turn deadline has passed
\* while the phase still has time left: the figure of the game_resync is 0.
C30_Witness ==
  /\ handled = <<>>
  /\ Len(sent) >= 3
  /\ sent[3].msg.type = "game_resync"
  /\ sent[3].msg.phase = "projectile"
  /\ sent[3].msg.turnTimeRemainingMs = 0
  /\ gameState.turnEndTime < now
  /\ phaseStartTime + PROJECTILE_TIMEOUT_MS > now

\* The deadline the state after the step calls for.
DerivedDeadlineAfter ==
  IF gameState'.phase = "projectile" THEN phaseStartTime' + PROJECTILE_TIMEOUT_MS
  ELSE IF gameState'.phase = "retreat" THEN phaseStartTime' + RETREAT_TIME_MS
  ELSE gameState'.turnEndTime + WATCHDOG_GRACE_MS

\* C31: a step that changes the phase or currentTurnIndex, or that populates
\* the session, leaves the alarm armed at the deadline of the new state
\* (phaseStartTime + 20 s in projectile, + 8 s in retreat, turnEndTime + 5 s
\* in aiming) with phaseStartTime the time of the step; and a step that sets
\* the alarm without changing phase or index sets it to the deadline of the
\* state, or is the close of the active player's websocket in the aiming
\* phase, which sets it 12 s ahead.
C31_PhaseIndexDeadlineTogether ==
  [][/\ (\/ gameState'.phase # gameState.phase
         \/ gameState'.currentTurnIndex # gameState.currentTurnIndex
         \/ ~Initialized /\ Len(gameState'.playerOrder) > 0) =>
          /\ alarm' = {DerivedDeadlineAfter}
          /\ phaseStartTime' = now
     /\ (Initialized /\ alarm' # alarm /\ ~TickAny) =>
          \/ alarm' = {DerivedDeadlineAfter}
          \/ /\ \E ws \in SockIds : WebSocketClose(ws)
             /\ gameState.phase = "aiming"
             /\ alarm' = {now + DISCONNECT_ADVANCE_MS}]_vars

\* A bot's fire step has just started the projectile phase and armed the
\* alarm 20 s ahead.
C31_Witness ==
  /\ IsBotTurn(gameState)
  /\ gameState.phase = "projectile"
  /\ phaseStartTime = now
  /\ alarm = {now + PROJECTILE_TIMEOUT_MS}
  /\ Len(gameState.inputLog) = 1
  /\ Len(sent) = 2
  /\ sent[1].msg.type = "input"

\* ------------------------------------------------ a human and a walking bot
\* A human at seat 0 and a bot at seat 1.
ChainBody ==
  [playerOrder |-> <<Human("A"), Bot("X")>>, rngSeed |-> 7, terrainId |-> 0]

ChainInitResume == \E rnd \in RandomSeeds : HandleInitResume(ChainBody, rnd)

\* What the clients send: a ball_state that puts the human's first unit at
\* x = 400 and kills its two others, so that the bot (whose units stay at
\* x = 0) walks two steps before it fires, and the messages of a turn.
ChainMsgs ==
  { [type |-> "ball_state",
     balls |-> <<[x |-> Num(400)], [hp |-> Num(100)], [alive |-> Bool(FALSE)],
                 [hp |-> Num(100)], [alive |-> Bool(FALSE)]>>],
    [type |-> "input", input |-> FireInput],
    [type |-> "retreat_start"],
    [type |-> "end_turn"] }

ChainMessage == \E ws \in SockIds, m \in ChainMsgs : Message(ws, m)

NextChain ==
  \/ InitBeginSequential
  \/ ChainInitResume
  \/ ConnectBeforeInit
  \/ ChainMessage
  \/ Alarm
  \/ BotStep
  \/ BotPostFire
  \/ TickAny

SpecChain == Init /\ [][NextChain]_vars

\* The callbacks of the chain: the only pending callback is callback i.
OnlyCallback(i) == i \in DOMAIN timers /\ Len(timers) = 1

WalkRelay(t) ==
  [to |-> Range(sockets),
   msg |-> [type |-> "input",
            input |-> [tokens |-> <<"Walk", "dir", IF t.walkDir > 0 THEN "1.0" ELSE "-1.0">>],
            turnIndex |-> t.turnIndex]]

\* C32: a bot turn that no alarm and no stale callback interrupts runs as one
\* chain.  When a bot seat becomes current the aim preview of its plan is
\* sent and one doStep is deferred by 600 ms with step count 0; a doStep of
\* the current turn with fewer than walkSteps steps behind it relays one walk
\* input, leaves inputLog, the phase and the turn as they are and defers
\* itself with one step more; a doStep with walkSteps steps behind it appends
\* the planned fire to inputLog, relays it followed by the state, sets the
\* phase to projectile and defers the post-fire callback by 1500 ms; the
\* post-fire callback advances the turn by one seat with one turn_advanced.
\* During a bot's turn the phase is never retreat, inputLog changes in the
\* fire step only, and no chain has more than walkSteps steps behind it.
C32_BotChainInOrder ==
  [][Initialized =>
      /\ (IsBotTurn(gameState')
          /\ gameState'.currentTurnIndex # gameState.currentTurnIndex) =>
           /\ gameState'.phase = "aiming"
           /\ sent' # <<>>
           /\ sent'[Len(sent')] =
                [to |-> Range(sockets),
                 msg |-> [type |-> "aim",
                          aim |-> GetBotActions(gameState', ballSnapshots').fireInput.angle_deg,
                          turnIndex |-> gameState'.currentTurnIndex]]
           /\ timers' # <<>>
           /\ timers'[Len(timers')] =
                [kind |-> "doStep", due |-> now + BOT_THINK_MS,
                 turnIndex |-> gameState'.currentTurnIndex, stepIdx |-> 0,
                 walkDir |-> GetBotActions(gameState', ballSnapshots').walkDir,
                 walkSteps |-> GetBotActions(gameState', ballSnapshots').walkSteps,
                 fireInput |-> GetBotActions(gameState', ballSnapshots').fireInput]
      /\ \A i \in DOMAIN timers :
           (OnlyCallback(i) /\ DoStep(i) /\ IsBotTurn(gameState)
            /\ timers[i].turnIndex = gameState.currentTurnIndex) =>
             IF timers[i].stepIdx < timers[i].walkSteps
               THEN /\ gameState' = gameState
                    /\ sent' = <<WalkRelay(timers[i])>>
                    /\ timers' = <<[timers[i] EXCEPT !.stepIdx = @ + 1,
                                                     !.due = now + BOT_STEP_MS]>>
               ELSE /\ timers[i].stepIdx = timers[i].walkSteps
                    /\ gameState.phase = "aiming"
                    /\ gameState' = [gameState EXCEPT
                                       !.inputLog = Append(@, timers[i].fireInput),
                                       !.phase = "projectile"]
                    /\ Len(sent') = 2
                    /\ sent'[1] = [to |-> Range(sockets),
                                   msg |-> [type |-> "input",
                                            input |-> timers[i].fireInput,
                                            turnIndex |-> timers[i].turnIndex]]
                    /\ sent'[2].msg.type = "state"
                    /\ sent'[2].msg.state = gameState'
                    /\ timers' = <<[kind |-> "postFire", due |-> now + BOT_POSTFIRE_MS,
                                    turnIndex |-> timers[i].turnIndex]>>
      /\ \A i \in DOMAIN timers :
           (OnlyCallback(i) /\ PostFire(i) /\ IsBotTurn(gameState)
            /\ timers[i].turnIndex = gameState.currentTurnIndex) =>
             /\ gameState.phase = "projectile"
             /\ gameState'.currentTurnIndex =
                  (gameState.currentTurnIndex + 1) % Len(gameState.playerOrder)
             /\ gameState'.inputLog = gameState.inputLog
             /\ Cardinality(TurnAdvancedAt) = 1
      /\ (IsBotTurn(gameState)
          /\ gameState'.currentTurnIndex = gameState.currentTurnIndex) =>
           /\ gameState'.phase # "retreat"
           /\ gameState'.inputLog # gameState.inputLog =>
                /\ Len(gameState'.inputLog) = Len(gameState.inputLog) + 1
                /\ \E i \in DOMAIN timers :
                     DoStep(i) /\ timers[i].stepIdx >= timers[i].walkSteps
           /\ (gameState.phase = "projectile" /\ Len(timers) = 1
               /\ timers[1].kind = "postFire") =>
                gameState'.inputLog = gameState.inputLog
      /\ \A i \in DOMAIN timers' :
           timers'[i].kind = "doStep" => timers'[i].stepIdx <= timers'[i].walkSteps]_vars

\* The chain of a plan with two walk steps has run to its end: the bot's
\* planned fire is the last entry of inputLog, no callback is pending, and the
\* last handler (the post-fire callback) announced the human's turn.
C32_Witness ==
  /\ Initialized
  /\ gameState.currentTurnIndex = 0
  /\ gameState.playerOrder[2].isBot
  /\ timers = <<>>
  /\ handled = <<>>
  /\ sent # <<>>
  /\ sent[1].msg.type = "turn_advanced"
  /\ gameState.inputLog # <<>>
  /\ "power_percent" \in DOMAIN gameState.inputLog[Len(gameState.inputLog)]
  /\ gameState.inputLog[Len(gameState.inputLog)].power_percent = 75
  /\ ballSnapshots[1].x = 400

\* ------------------------------------------------- the plans of the bot
\* A ball_state entry that writes every field the planner reads.
Unit(x, y, hp, alive) ==
  [x |-> Num(x), y |-> Num(y), hp |-> Num(hp), alive |-> Bool(alive)]

AtSpawn == Unit(0, 0, 100, TRUE)
Dead == Unit(0, 0, 100, FALSE)

\* The snapshots the human (seat 0, units 0, 2, 4) reports before the bot
\* (seat 1, units 1, 3, 5) plans: one enemy in reach, at the edge of the
\* grid's reach, out of reach, and above the shooter; weak and strong enemies
\* near and far; the bot's first unit dead; no unit of the bot, or no enemy,
\* alive.
PlanSnapshots ==
  { <<Unit(400, 0, 100, TRUE), AtSpawn, Dead, AtSpawn, Dead, AtSpawn>>,
    <<Unit(1588, 0, 100, TRUE), AtSpawn, Dead, AtSpawn, Dead, AtSpawn>>,
    <<Unit(5088, 0, 100, TRUE), AtSpawn, Dead, AtSpawn, Dead, AtSpawn>>,
    <<Unit(1888, 0, 100, TRUE), AtSpawn, Dead, AtSpawn, Dead, AtSpawn>>,
    <<Unit(400, 0 - 356, 100, TRUE), AtSpawn, Dead, AtSpawn, Dead, AtSpawn>>,
    <<Unit(100, 0, 100, TRUE), AtSpawn, Unit(300, 0, 20, TRUE), AtSpawn, Dead, AtSpawn>>,
    <<Unit(100, 0, 100, TRUE), AtSpawn, Unit(600, 0, 20, TRUE), AtSpawn, Dead, AtSpawn>>,
    <<AtSpawn, Dead, Dead, Unit(50, 0, 100, TRUE), Dead, AtSpawn>>,
    <<AtSpawn, Dead, AtSpawn, Dead, AtSpawn, Dead>>,
    <<Dead, AtSpawn, Dead, AtSpawn, Dead, AtSpawn>>,
    <<Unit(100, 0, 10, TRUE), AtSpawn, Unit(200, 0, 20, TRUE), AtSpawn,
      Unit(50, 0, 100, TRUE), AtSpawn>>,
    <<Unit(300, 0, 100, TRUE), AtSpawn, Unit(200, 0, 100, TRUE), AtSpawn,
      Unit(200, 0, 100, TRUE), AtSpawn>> }

PlanMsgs ==
  {[type |-> "ball_state", balls |-> b] : b \in PlanSnapshots} \cup {[type |-> "end_turn"]}

\* The runs are followed up to the end of the turn of the first fire.
BeforeFirstFire == gameState.inputLog = <<>>

\* The current-turn player reports and ends its turn.
PlanMessage ==
  \E ws \in SockIds, m \in PlanMsgs :
    IsCurrentPlayer(ws) /\ BeforeFirstFire /\ Message(ws, m)

PlanAlarm == BeforeFirstFire /\ Alarm

PlanTick == (BeforeFirstFire \/ timers # <<>>) /\ TickAny

NextPlan ==
  \/ InitBeginSequential
  \/ ChainInitResume
  \/ ConnectBeforeInit
  \/ PlanMessage
  \/ PlanAlarm
  \/ BotStep
  \/ BotPostFire
  \/ PlanTick

SpecPlan == Init /\ [][NextPlan]_vars

\* The scores of the grid for a shot from (sx, sy) at (tx, ty).
AimScoresOf(sx, sy, tx, ty) ==
  IF \E k \in DOMAIN KnownAims : KnownAims[k] = <<sx, sy, tx, ty>>
    THEN KnownScores[CHOOSE k \in DOMAIN KnownAims : KnownAims[k] = <<sx, sy, tx, ty>>]
    ELSE AimScoreRow(sx, sy, tx, ty)

\* The bot plans in this step: its seat becomes current, and it has an alive
\* unit and an alive enemy.
BotPlansAim ==
  /\ Initialized
  /\ IsBotTurn(gameState')
  /\ gameState'.currentTurnIndex # gameState.currentTurnIndex
  /\ ShooterOf(gameState', ballSnapshots') # {}
  /\ Enemies(gameState', ballSnapshots') # {}

BotSeatBecomesCurrent ==
  /\ Initialized
  /\ IsBotTurn(gameState')
  /\ gameState'.currentTurnIndex # gameState.currentTurnIndex

\* C34: when a bot plans its turn, the shooter is the alive unit of least
\* index among its own units (idx, idx + N, idx + 2N), and the plan it
\* defers is the plan against a target that is alive and not its own; if
\* some alive enemy has hp <= 30 and is closer than 500 to the shooter the
\* target is such a unit, otherwise no alive enemy is nearer to the shooter
\* than the target.  With no alive unit of its own or no alive enemy the
\* plan is the fallback shot.
C34_TargetSelection ==
  [][BotSeatBecomesCurrent =>
       \E idx \in {gameState'.currentTurnIndex} :
       \E n \in {Len(gameState'.playerOrder)} :
       \E r \in {BotRand(gameState')} :
       \E own \in {{i \in {idx, idx + n, idx + 2 * n} : i < Len(ballSnapshots')}} :
       \E mine \in {{i \in own : ballSnapshots'[i + 1].alive}} :
       \E theirs \in {{i \in 0..(Len(ballSnapshots') - 1) :
                         ballSnapshots'[i + 1].alive /\ i \notin own}} :
         /\ timers' # <<>>
         /\ timers'[Len(timers')].kind = "doStep"
         /\ timers'[Len(timers')].stepIdx = 0
         /\ IF mine = {} \/ theirs = {}
              THEN /\ timers'[Len(timers')].walkDir = 0
                   /\ timers'[Len(timers')].walkSteps = 0
                   /\ timers'[Len(timers')].fireInput
                        = FirePayload(Scaled(r, 120) - 60000, 45 + Floor45(r))
              ELSE \E s \in {ballSnapshots'[i + 1] : i \in {j \in mine : \A k \in mine : j <= k}} :
                   \E weak \in {{i \in theirs :
                                   /\ ballSnapshots'[i + 1].hp <= 30
                                   /\ Dist2(ballSnapshots'[i + 1].x, ballSnapshots'[i + 1].y,
                                            s.x, s.y) < 500 * 500}} :
                   \E t \in theirs :
                     /\ weak # {} => t \in weak
                     /\ weak = {} =>
                          \A e \in theirs :
                            Dist2(ballSnapshots'[t + 1].x, ballSnapshots'[t + 1].y, s.x, s.y)
                              <= Dist2(ballSnapshots'[e + 1].x, ballSnapshots'[e + 1].y, s.x, s.y)
                     /\ \E plan \in {PlanAgainst(r, s, ballSnapshots'[t + 1])} :
                          /\ timers'[Len(timers')].walkDir = plan.walkDir
                          /\ timers'[Len(timers')].walkSteps = plan.walkSteps
                          /\ timers'[Len(timers')].fireInput = plan.fireInput]_vars

\* The bot has planned with a nearer strong enemy (at 100) and a weak one
\* within 500 (at 300, hp 20): the plan walks one step, which is the plan
\* against the weak unit.
C34_Witness ==
  /\ Initialized
  /\ IsBotTurn(gameState)
  /\ Len(ballSnapshots) = 6
  /\ ballSnapshots[1].alive /\ ballSnapshots[1].x = 100 /\ ballSnapshots[1].hp = 100
  /\ ballSnapshots[3].alive /\ ballSnapshots[3].x = 300 /\ ballSnapshots[3].hp = 20
  /\ ballSnapshots[2].alive /\ ballSnapshots[2].x = 0
  /\ Len(timers) = 1
  /\ timers[1].kind = "doStep"
  /\ timers[1].stepIdx = 0
  /\ timers[1].walkSteps = 1
  /\ timers[1].walkDir = 1

\* C35: the online set is the set of ids with a registered websocket, in
\* every state; a connect of id p registers its new websocket for p (in
\* place of one p had) and has p online in the same step; the close of the
\* websocket registered for p removes the registration and has p offline in
\* the same step.
C35_OnlineIsRegistered ==
  /\ [](connectedPlayerIds = DOMAIN sockets)
  /\ [][/\ \A p \in PlayerIds :
             HandleWebSocket(p) =>
               /\ p \in connectedPlayerIds'
               /\ p \in DOMAIN sockets'
               /\ sockets'[p] \notin DOMAIN wsOwner
               /\ wsOwner'[sockets'[p]] = p
        /\ \A ws \in SockIds :
             (WebSocketClose(ws) /\ SenderOf(ws) # {}) =>
               \A p \in SenderOf(ws) :
                 /\ p \in connectedPlayerIds
                 /\ p \notin connectedPlayerIds'
                 /\ p \notin DOMAIN sockets']_vars

\* A player has connected again: the websocket registered for it is its
\* second one, the first is still open, and it is online.
C35_Witness ==
  \E p \in DOMAIN sockets :
    /\ Initialized
    /\ p \in connectedPlayerIds
    /\ \E old \in DOMAIN wsOwner : old # sockets[p] /\ wsOwner[old] = p

\* C36: in every state, a phase other than aiming implies a non-empty
\* inputLog; a step that leaves aiming leaves a fire in the log, and a step
\* that empties the log leaves the phase at aiming.
C36_PhaseNeedsFire ==
  /\ [](gameState.phase # "aiming" => gameState.inputLog # <<>>)
  /\ [][/\ (gameState.phase = "aiming" /\ gameState'.phase # "aiming")
             => /\ gameState'.phase = "projectile"
                /\ Len(gameState'.inputLog) = Len(gameState.inputLog) + 1
        /\ (gameState.inputLog # <<>> /\ gameState'.inputLog = <<>>)
             => gameState'.phase = "aiming"]_vars

\* A retreat_start has taken the game from projectile to retreat, with the
\* fire of the turn in the log.
C36_Witness ==
  /\ Initialized
  /\ handled # <<>>
  /\ handled[1].msg.type = "retreat_start"
  /\ gameState.phase = "retreat"
  /\ Len(gameState.inputLog) = 1
  /\ phaseStartTime = now

\* C37: in every state of an initialized session an alarm is pending; a run
\* of the alarm handler leaves the alarm armed at the deadline of the phase
\* it leaves the session in, and no other step of an initialized session
\* leaves the session without an alarm.
C37_AlarmAlwaysArmed ==
  /\ [](Initialized => alarm # {})
  /\ [][/\ (Initialized /\ Alarm)
             => alarm' = {WatchdogDeadline(gameState', phaseStartTime')}
        /\ (Initialized /\ alarm # {}) => alarm' # {}]_vars

\* The alarm has run in the aiming phase on a disconnected current player
\* and forced the turn on: the alarm is armed for the new turn.
C37_Witness ==
  /\ Initialized
  /\ Len(sent) > 1
  /\ sent[1].msg.type = "force_advance"
  /\ sent[1].msg.reason = "player_disconnected"
  /\ gameState.phase = "aiming"
  /\ alarm = {gameState.turnEndTime + WATCHDOG_GRACE_MS}
  /\ gameState.turnEndTime = now + TURN_TIME_MS

\* C38: inputLog grows by at most one entry between two changes of turn.
\* The first fire of a turn takes the phase out of aiming, and the phase
\* comes back to aiming only with a change of turn (init, restart, advance),
\* so the statement is: a step appends at most one entry to inputLog, and it
\* appends only in the aiming phase.
C38_OneFirePerTurn ==
  [][Initialized =>
       /\ Len(gameState'.inputLog) <= Len(gameState.inputLog) + 1
       /\ Len(gameState'.inputLog) > Len(gameState.inputLog)
            => gameState.phase = "aiming"]_vars

\* C39: the close of the current-turn player's websocket in the aiming phase
\* arms the alarm no later than the alarm that was armed before the close,
\* hence no later than the turn deadline + 5 s.
C39_CloseOnlyShortens ==
  [][(Initialized /\ ActivePlayerCloses) =>
       /\ \A after \in alarm' : \A before \in alarm : after <= before
       /\ \A after \in alarm' : after <= gameState.turnEndTime + WATCHDOG_GRACE_MS]_vars

\* A bot seat becomes the current seat in the aiming phase in this step: by
\* init, by a turn advance, or by a restart.
BotSeatStartsTurn ==
  /\ Initialized'
  /\ IsBotTurn(gameState')
  /\ gameState'.phase = "aiming"
  /\ \/ ~Initialized
     \/ gameState'.currentTurnIndex # gameState.currentTurnIndex
     \/ HandledType = "restart" /\ gameState'.rngSeed = handled'[1].msg.seed
                                /\ "seed" \in DOMAIN handled'[1].msg

\* After the step a callback is pending that starts or continues a bot
\* action chain in the new turn: the kick-off of init, or a doStep of the
\* current seat.
BotChainStarted ==
  \E i \in DOMAIN timers' :
    \/ timers'[i].kind = "maybeBotTurn"
    \/ /\ timers'[i].kind = "doStep"
       /\ timers'[i].turnIndex = gameState'.currentTurnIndex

\* C40: whenever a bot seat becomes the current seat in the aiming phase, a
\* bot action chain is started for that turn; and no run of the watchdog
\* ends a bot's turn with the reason player_disconnected.
C40_BotTurnsRunTheirChain ==
  [][/\ BotSeatStartsTurn => BotChainStarted
     /\ (Initialized /\ Alarm /\ IsBotTurn(gameState))
          => ForceReason # "player_disconnected"]_vars

=============================================================================
